---- MODULE Spec2Model ----
(***************************************************************************)
(* A model of postgate: the SQL validator (src/src/parser.rs), the         *)
(* metadata store (src/src/store.rs) and the /query request pipeline       *)
(* (src/src/server.rs, src/src/error.rs, src/src/executor.rs).             *)
(*                                                                         *)
(* Two specifications:                                                     *)
(*   SpecV  the validator as a pure function: Init draws an SQL text and   *)
(*          a rule set, the one action applies parse_and_validate and the  *)
(*          handler's mapping of its result;                               *)
(*   Spec   the store and the concurrent /query requests.                  *)
(***************************************************************************)
EXTENDS Integers, Sequences, FiniteSets, TLC

(* ------------------------------------------------------------------ *)
(* Bounds of the model                                                  *)
(* ------------------------------------------------------------------ *)
\* statements (segments between ';') of one SQL text
MaxStmts == 2
\* relation references of one statement
MaxRels == 2
\* dotted parts of one relation reference
MaxParts == 3

(* ------------------------------------------------------------------ *)
(* Strings: an identifier is a tuple of characters, so that            *)
(* to_lowercase, starts_with and format! are computed, not assumed.     *)
(* ------------------------------------------------------------------ *)
UpperAlpha ==
  <<"A","B","C","D","E","F","G","H","I","J","K","L","M",
    "N","O","P","Q","R","S","T","U","V","W","X","Y","Z">>

LowerAlpha ==
  <<"a","b","c","d","e","f","g","h","i","j","k","l","m",
    "n","o","p","q","r","s","t","u","v","w","x","y","z">>

LowerChar(c) ==
  IF \E i \in DOMAIN UpperAlpha : UpperAlpha[i] = c
  THEN LowerAlpha[CHOOSE i \in DOMAIN UpperAlpha : UpperAlpha[i] = c]
  ELSE c

to_lowercase(s) == [i \in 1..Len(s) |-> LowerChar(s[i])]

starts_with(s, p) == Len(s) >= Len(p) /\ SubSeq(s, 1, Len(p)) = p

RECURSIVE JoinDot(_)
JoinDot(parts) ==
  IF Len(parts) = 0 THEN <<>>
  ELSE IF Len(parts) = 1 THEN parts[1]
  ELSE parts[1] \o <<".">> \o JoinDot(Tail(parts))

\* the literals of validate_table_refs
PgPrefix == <<"p","g","_">>

InformationSchema ==
  <<"i","n","f","o","r","m","a","t","i","o","n","_","s","c","h","e","m","a">>

\* identifiers of the inputs
IdUsers == <<"u","s","e","r","s">>

IdPgTables == <<"P","g","_","t","a","b","l","e","s">>

IdInfoSchema ==
  <<"I","n","f","o","r","m","a","t","i","o","n","_","S","c","h","e","m","a">>

IdPgCatalog == <<"p","g","_","c","a","t","a","l","o","g">>

IdPublic == <<"p","u","b","l","i","c">>

(* ------------------------------------------------------------------ *)
(* SqlOperation (config.rs) and the statements the parser library       *)
(* hands to parse_and_validate                                          *)
(* ------------------------------------------------------------------ *)
SqlOperation == {"SELECT", "INSERT", "UPDATE", "DELETE", "CREATE", "ALTER", "DROP"}

is_ddl(op) == op \in {"CREATE", "ALTER", "DROP"}

\* sqlparser's Statement variants that occur in the inputs
DmlVariants == {"Query", "Insert", "Update", "Delete"}

DdlVariants ==
  {"CreateTable", "CreateIndex", "CreateView", "AlterTable", "AlterIndex", "Truncate"}

OtherVariants ==
  {"SetVariable", "ShowVariable", "Copy", "Grant", "StartTransaction", "CreateSchema"}

\* Statement::Drop carries the kind of object it drops
StatementHeads ==
  [variant : DmlVariants \cup DdlVariants \cup OtherVariants, object_type : {"-"}]
  \cup [variant : {"Drop"}, object_type : {"Table", "Schema"}]

\* a segment of the SQL text that is only white space, and one that is no SQL
EmptySegment == [variant |-> "<empty>", object_type |-> "-", relations |-> <<>>]

Unparsable == [variant |-> "<unparsable>", object_type |-> "-", relations |-> <<>>]

None == [some |-> FALSE, value |-> <<>>]

Some(v) == [some |-> TRUE, value |-> v]

(* ------------------------------------------------------------------ *)
(* parser.rs                                                            *)
(* ------------------------------------------------------------------ *)
Ok(operation, tables, statement) ==
  [ok |-> TRUE, err |-> "-", arg |-> <<>>,
   operation |-> operation, tables |-> tables, statement |-> statement]

Err(e, a) ==
  [ok |-> FALSE, err |-> e, arg |-> a,
   operation |-> "-", tables |-> {}, statement |-> EmptySegment]

\* Parser::parse_sql of the sqlparser library: the text is cut at ';', empty
\* segments are skipped, every other segment must parse.
Parser_parse_sql(sql) ==
  IF \E i \in DOMAIN sql : sql[i] = Unparsable
  THEN [ok |-> FALSE, statements |-> <<>>]
  ELSE [ok |-> TRUE, statements |-> SelectSeq(sql, LAMBDA s : s # EmptySegment)]

extract_operation_ddl(statement) ==
  CASE statement.variant = "Query" -> [ok |-> TRUE, op |-> "SELECT"]
    [] statement.variant = "Insert" -> [ok |-> TRUE, op |-> "INSERT"]
    [] statement.variant = "Update" -> [ok |-> TRUE, op |-> "UPDATE"]
    [] statement.variant = "Delete" -> [ok |-> TRUE, op |-> "DELETE"]
    [] statement.variant = "Drop" -> [ok |-> TRUE, op |-> "DROP"]
    [] OTHER -> [ok |-> FALSE, op |-> "-"]

extract_operation(statement) ==
  CASE statement.variant = "Query" -> [ok |-> TRUE, op |-> "SELECT"]
    [] statement.variant = "Insert" -> [ok |-> TRUE, op |-> "INSERT"]
    [] statement.variant = "Update" -> [ok |-> TRUE, op |-> "UPDATE"]
    [] statement.variant = "Delete" -> [ok |-> TRUE, op |-> "DELETE"]
    [] OTHER -> [ok |-> FALSE, op |-> "-"]

\* one relation (an ObjectName: its dotted parts) as a TableRef
TableRef(parts) ==
  CASE Len(parts) = 1 -> [schema |-> None, name |-> parts[1]]
    [] Len(parts) = 2 -> [schema |-> Some(parts[1]), name |-> parts[2]]
    [] OTHER -> [schema |-> Some(JoinDot(SubSeq(parts, 1, Len(parts) - 1))),
                 name |-> parts[Len(parts)]]

\* visit_relations yields the statement's relations in the order of the text
extract_table_refs(statement) ==
  [i \in 1..Len(statement.relations) |-> TableRef(statement.relations[i])]

\* the body of the loop of validate_table_refs for one reference
CheckTableRef(table_ref) ==
  IF table_ref.schema.some
  THEN Err("QualifiedTableName", table_ref.schema.value \o <<".">> \o table_ref.name)
  ELSE IF starts_with(to_lowercase(table_ref.name), PgPrefix)
  THEN Err("SystemTableAccess", table_ref.name)
  ELSE IF to_lowercase(table_ref.name) = InformationSchema
  THEN Err("SystemTableAccess", table_ref.name)
  ELSE Ok("-", {table_ref.name}, EmptySegment)

\* the same body with the system-table checks before the qualification check
CheckTableRef_systemFirst(table_ref) ==
  IF starts_with(to_lowercase(table_ref.name), PgPrefix)
  THEN Err("SystemTableAccess", table_ref.name)
  ELSE IF to_lowercase(table_ref.name) = InformationSchema
  THEN Err("SystemTableAccess", table_ref.name)
  ELSE IF table_ref.schema.some
  THEN Err("QualifiedTableName", table_ref.schema.value \o <<".">> \o table_ref.name)
  ELSE Ok("-", {table_ref.name}, EmptySegment)

\* the same body comparing the name as written (no to_lowercase)
CheckTableRef_caseSensitive(table_ref) ==
  IF table_ref.schema.some
  THEN Err("QualifiedTableName", table_ref.schema.value \o <<".">> \o table_ref.name)
  ELSE IF starts_with(table_ref.name, PgPrefix)
  THEN Err("SystemTableAccess", table_ref.name)
  ELSE IF table_ref.name = InformationSchema
  THEN Err("SystemTableAccess", table_ref.name)
  ELSE Ok("-", {table_ref.name}, EmptySegment)

RECURSIVE ValidateLoop(_, _, _, _)
ValidateLoop(Check(_), table_refs, i, table_names) ==
  IF i > Len(table_refs) THEN Ok("-", table_names, EmptySegment)
  ELSE LET r == Check(table_refs[i]) IN
       IF ~r.ok THEN r
       ELSE ValidateLoop(Check, table_refs, i + 1, table_names \cup r.tables)

validate_table_refs_systemFirst(table_refs) ==
  ValidateLoop(CheckTableRef_systemFirst, table_refs, 1, {})

validate_table_refs_caseSensitive(table_refs) ==
  ValidateLoop(CheckTableRef_caseSensitive, table_refs, 1, {})

validate_table_refs(table_refs) == ValidateLoop(CheckTableRef, table_refs, 1, {})

\* the loop over the HashSet `tables`: the first table, in the set's iteration
\* order, that a rule rejects decides the error; the order is not specified,
\* so every rejected table is a possible first one.
TableRuleError(table, rules) ==
  IF to_lowercase(table) \in rules.denied_tables
  THEN Err("TableDenied", table)
  ELSE IF rules.allowed_tables.some /\ to_lowercase(table) \notin rules.allowed_tables.value
  THEN Err("TableNotAllowed", table)
  ELSE Ok("-", {table}, EmptySegment)

TableRuleErrors(tables, rules) ==
  {TableRuleError(t, rules) : t \in {u \in tables : ~TableRuleError(u, rules).ok}}

\* the operation check of parse_and_validate
OperationAllowed_emptyDenies(rules, operation) == operation \in rules.allowed_operations

OperationAllowed(rules, operation) ==
  ~(rules.allowed_operations # {} /\ operation \notin rules.allowed_operations)

\* the statement-count checks of parse_and_validate
CountError_firstOnly(statements) ==
  IF Len(statements) = 0 THEN "EmptyQuery" ELSE "-"

CountError(statements) ==
  IF Len(statements) = 0 THEN "EmptyQuery"
  ELSE IF Len(statements) > 1 THEN "MultipleStatements"
  ELSE "-"

\* the operation checked before the table references
parse_and_validate_operationFirst(sql, rules) ==
  LET parsed == Parser_parse_sql(sql) IN
  IF ~parsed.ok THEN {Err("SqlParser", <<>>)}
  ELSE IF CountError(parsed.statements) # "-"
  THEN {Err(CountError(parsed.statements), <<>>)}
  ELSE
    LET statement == parsed.statements[1]
        operation == extract_operation(statement)
    IN
    IF ~operation.ok THEN {Err("UnsupportedStatement", <<>>)}
    ELSE IF ~OperationAllowed(rules, operation.op)
    THEN {Err("OperationNotAllowed", operation.op)}
    ELSE
      LET tables == validate_table_refs(extract_table_refs(statement)) IN
      IF ~tables.ok THEN {tables}
      ELSE IF TableRuleErrors(tables.tables, rules) # {}
      THEN TableRuleErrors(tables.tables, rules)
      ELSE {Ok(operation.op, tables.tables, statement)}

\* the set of results parse_and_validate can return (one, except for the
\* iteration order of the table rules)
parse_and_validate(sql, rules) ==
  LET parsed == Parser_parse_sql(sql) IN
  IF ~parsed.ok THEN {Err("SqlParser", <<>>)}
  ELSE IF CountError(parsed.statements) # "-"
  THEN {Err(CountError(parsed.statements), <<>>)}
  ELSE
    LET statement == parsed.statements[1]
        operation == extract_operation(statement)
    IN
    IF ~operation.ok THEN {Err("UnsupportedStatement", <<>>)}
    ELSE
      LET tables == validate_table_refs(extract_table_refs(statement)) IN
      IF ~tables.ok THEN {tables}
      ELSE IF ~OperationAllowed(rules, operation.op)
      THEN {Err("OperationNotAllowed", operation.op)}
      ELSE IF TableRuleErrors(tables.tables, rules) # {}
      THEN TableRuleErrors(tables.tables, rules)
      ELSE {Ok(operation.op, tables.tables, statement)}

(* ------------------------------------------------------------------ *)
(* error.rs: PostgateError -> (status, code)                            *)
(* ------------------------------------------------------------------ *)
NoResponse == [status |-> 0, code |-> "-"]

error_response(e) ==
  CASE e.kind = "Parse" -> [status |-> 400, code |-> "PARSE_ERROR"]
    [] e.kind = "Executor" /\ e.inner = "Timeout" -> [status |-> 504, code |-> "TIMEOUT"]
    [] e.kind = "Executor" /\ e.inner = "RowLimitExceeded" ->
         [status |-> 400, code |-> "ROW_LIMIT_EXCEEDED"]
    [] e.kind = "Executor" -> [status |-> 500, code |-> "DATABASE_ERROR"]
    [] e.kind = "DatabaseNotFound" -> [status |-> 404, code |-> "DATABASE_NOT_FOUND"]
    [] e.kind \in {"MissingAuth", "InvalidAuth"} -> [status |-> 401, code |-> "UNAUTHORIZED"]
    [] OTHER -> [status |-> 500, code |-> "INTERNAL_ERROR"]

PostgateError(kind, inner) == [kind |-> kind, inner |-> inner]

\* query_handler, from the result of parse_and_validate on: `?` returns the
\* error's response, otherwise the handler goes on to execute
AfterParse_ignoreError(parsed) == [pc |-> "execute", response |-> NoResponse]

AfterParse(parsed) ==
  IF parsed.ok THEN [pc |-> "execute", response |-> NoResponse]
  ELSE [pc |-> "done", response |-> error_response(PostgateError("Parse", parsed.err))]

(* ------------------------------------------------------------------ *)
(* Inputs of the validator                                              *)
(* ------------------------------------------------------------------ *)
NameInputs == {IdUsers, IdPgTables, IdInfoSchema}

SchemaInputs == {IdPgCatalog, IdInfoSchema}

\* a reference: a bare name, schema.name, or public. ... .schema.name
RECURSIVE Publics(_)
Publics(n) == IF n = 0 THEN <<>> ELSE <<IdPublic>> \o Publics(n - 1)

RefInputs ==
  {<<n>> : n \in NameInputs}
  \cup {<<s, n>> : s \in SchemaInputs, n \in NameInputs}
  \cup {Publics(k) \o <<IdPgCatalog, n>> : k \in 1..(MaxParts - 2), n \in NameInputs}

RECURSIVE SeqsUpTo(_, _)
SeqsUpTo(S, n) ==
  IF n = 0 THEN {<<>>}
  ELSE LET shorter == SeqsUpTo(S, n - 1) IN
       shorter \cup {Append(q, x) : q \in {p \in shorter : Len(p) = n - 1}, x \in S}

RelInputs == SeqsUpTo(RefInputs, MaxRels)

\* the statements whose references are varied in full
RefHeads ==
  {h \in StatementHeads : h.variant \in DmlVariants \cup {"CreateTable", "SetVariable"}}

WithRels(h, rels) ==
  [variant |-> h.variant, object_type |-> h.object_type, relations |-> rels]

\* (a) one statement, its references varied
SingleInputs == {<<WithRels(h, rels)>> : h \in RefHeads, rels \in RelInputs}

\* (b) up to MaxStmts segments of every kind, all with the same references
SegmentRels == {<<<<IdUsers>>>>, <<<<IdPgCatalog, IdPgTables>>>>}

SegmentKinds(rels) ==
  {WithRels(h, rels) : h \in StatementHeads} \cup {EmptySegment, Unparsable}

StackedInputs == UNION {SeqsUpTo(SegmentKinds(rels), MaxStmts) : rels \in SegmentRels}

SqlInputs == SingleInputs \cup StackedInputs

AllowedOpsInputs ==
  {{}, {"SELECT"}, {"SELECT", "INSERT", "UPDATE", "DELETE"}, {"CREATE", "ALTER", "DROP"}}

TableRuleInputs ==
  {[allowed_tables |-> None, denied_tables |-> {}],
   [allowed_tables |-> None, denied_tables |-> {IdUsers}],
   [allowed_tables |-> Some({IdUsers}), denied_tables |-> {}]}

QueryRules(ops, t) ==
  [allowed_operations |-> ops,
   allowed_tables |-> t.allowed_tables, denied_tables |-> t.denied_tables]

RulesInputs == {QueryRules(ops, t) : ops \in AllowedOpsInputs, t \in TableRuleInputs}

(* ------------------------------------------------------------------ *)
(* token.rs                                                             *)
(* ------------------------------------------------------------------ *)
TOKEN_PREFIX == <<"p","g","_">>

\* the number of hex characters of a token
HexLen == 64

\* A token string: its leading characters, then `hexlen` characters of which
\* `head` stands for the first five and `tail` for the rest.  generate_token
\* draws 32 random bytes; the n-th token minted has tail n.
TokenString(prefix, hexlen, n) ==
  [prefix |-> prefix, hexlen |-> hexlen, head |-> 0, tail |-> n]

TokenLen(token) == Len(token.prefix) + token.hexlen

hash_token(token) == [sha256 |-> token]

generate_token(n) ==
  LET full_token == TokenString(TOKEN_PREFIX, HexLen, n) IN
  [full_token |-> full_token,
   token_hash |-> hash_token(full_token),
   prefix |-> [prefix |-> full_token.prefix, head |-> full_token.head]]

\* the prefix alone, whatever the length
is_valid_format_prefixOnly(token) == starts_with(token.prefix, TOKEN_PREFIX)

is_valid_format(token) ==
  /\ starts_with(token.prefix, TOKEN_PREFIX)
  /\ TokenLen(token) = Len(TOKEN_PREFIX) + HexLen

(* ------------------------------------------------------------------ *)
(* auth: extract_token and compute_token_hash, which server.rs imports  *)
(* ------------------------------------------------------------------ *)
NoToken == TokenString(<<>>, 0, 0)

\* An Authorization header value: `lead` and `trail` whitespace characters
\* around `<scheme> <token>`; the scheme "" is the bare `<token>`
NoHeader == [present |-> FALSE, scheme |-> "", token |-> NoToken, lead |-> 0, trail |-> 0]

Header(scheme, token) ==
  [present |-> TRUE, scheme |-> scheme, token |-> token, lead |-> 0, trail |-> 0]

Padded(auth_header, lead, trail) == [auth_header EXCEPT !.lead = lead, !.trail = trail]

Spaces(n) == [i \in 1..n |-> " "]

SchemeChars(scheme) ==
  CASE scheme = "Bearer" -> <<"B","e","a","r","e","r"," ">>
    [] scheme = "Basic" -> <<"B","a","s","i","c"," ">>
    [] OTHER -> <<>>

\* the characters of a header value as one string: what is_valid_format is
\* given; whitespace at the end counts in the length
HeaderText(auth_header) ==
  [prefix |-> Spaces(auth_header.lead) \o SchemeChars(auth_header.scheme)
                \o auth_header.token.prefix,
   hexlen |-> auth_header.token.hexlen + auth_header.trail,
   head |-> auth_header.token.head,
   tail |-> auth_header.token.tail]

trim(auth_header) == [auth_header EXCEPT !.lead = 0, !.trail = 0]

strip_bearer(auth_header) ==
  IF auth_header.scheme = "Bearer" THEN [auth_header EXCEPT !.scheme = ""] ELSE auth_header

\* `Bearer <token>` or `<token>`, after trimming whitespace; MissingHeader,
\* InvalidTokenFormat
extract_token(auth_header) ==
  IF ~auth_header.present
  THEN [ok |-> FALSE, err |-> "MissingHeader", token |-> NoToken]
  ELSE LET token == HeaderText(strip_bearer(trim(auth_header))) IN
       IF is_valid_format(token)
       THEN [ok |-> TRUE, err |-> "-", token |-> token]
       ELSE [ok |-> FALSE, err |-> "InvalidTokenFormat", token |-> NoToken]

compute_token_hash(token) == hash_token(token)

(* ------------------------------------------------------------------ *)
(* store.rs                                                             *)
(* ------------------------------------------------------------------ *)
NoConfig == [id |-> 0, backend |-> [type |-> "-", name |-> <<>>], max_rows |-> 0]

NoTokenInfo == [database_id |-> 0, token_id |-> 0, allowed_operations |-> {}]

\* a row of postgate_databases; the column that does not apply is NULL
DatabaseRow(id, backend_type, max_rows) ==
  [id |-> id, backend_type |-> backend_type,
   schema_name |-> IF backend_type = "schema" THEN <<"db", id>> ELSE <<>>,
   connection_string |-> IF backend_type = "dedicated" THEN <<"postgres", id>> ELSE <<>>,
   max_rows |-> max_rows]

get_database(databases, id) ==
  LET rows == {d \in databases : d.id = id} IN
  IF rows = {} THEN [ok |-> FALSE, err |-> "NotFound", config |-> NoConfig]
  ELSE
    LET row == CHOOSE d \in rows : TRUE IN
    CASE row.backend_type = "schema" ->
           [ok |-> TRUE, err |-> "-",
            config |-> [id |-> row.id,
                        backend |-> [type |-> "Schema", name |-> row.schema_name],
                        max_rows |-> row.max_rows]]
      [] row.backend_type = "dedicated" ->
           [ok |-> TRUE, err |-> "-",
            config |-> [id |-> row.id,
                        backend |-> [type |-> "Dedicated", name |-> row.connection_string],
                        max_rows |-> row.max_rows]]
      [] OTHER -> [ok |-> FALSE, err |-> "InvalidBackendType", config |-> NoConfig]

\* a row that keeps the token itself in the display column
TokenRow_plaintext(token_id, database_id, permissions, generated) ==
  [id |-> token_id, database_id |-> database_id,
   token_hash |-> generated.token_hash, token_prefix |-> generated.full_token,
   allowed_operations |-> permissions, last_used_at |-> FALSE]

\* the row create_token inserts
TokenRow(token_id, database_id, permissions, generated) ==
  [id |-> token_id, database_id |-> database_id,
   token_hash |-> generated.token_hash, token_prefix |-> generated.prefix,
   allowed_operations |-> permissions, last_used_at |-> FALSE]

\* Ok((token_id, full_token)): what create_token hands to its caller, kept
\* with the database id it was called for
create_token_returns(token_id, database_id, generated) ==
  <<token_id, database_id, generated.full_token>>

\* list_tokens(database_id): the TokenListItem of each row of the database
list_tokens(tokens, database_id) ==
  {[id |-> t.id, token_prefix |-> t.token_prefix, last_used_at |-> t.last_used_at] :
     t \in {u \in tokens : u.database_id = database_id}}

\* the match of validate_token made on the upper-cased string
ParseAllowedOperations_caseInsensitive(stored) ==
  {op \in {IF x = "select" THEN "SELECT" ELSE x : x \in stored} : op \in SqlOperation}

\* the filter_map of validate_token over the stored strings
ParseAllowedOperations(stored) == {op \in stored : op \in SqlOperation}

validate_token(tokens, token_hash) ==
  LET rows == {t \in tokens : t.token_hash = token_hash} IN
  IF rows = {} THEN [ok |-> FALSE, err |-> "TokenNotFound", info |-> NoTokenInfo]
  ELSE LET row == CHOOSE t \in rows : TRUE IN
       [ok |-> TRUE, err |-> "-",
        info |-> [database_id |-> row.database_id, token_id |-> row.id,
                  allowed_operations |-> ParseAllowedOperations(row.allowed_operations)]]

\* what validate_token returns once the row is looked up: the UPDATE of
\* last_used_at is spawned, not awaited, and its result dropped
Returns_awaited(found, update_ok) ==
  IF found.ok /\ ~update_ok
  THEN [ok |-> FALSE, err |-> "Database", info |-> NoTokenInfo]
  ELSE found

Returns(found, update_ok) == found

\* the ids validate_token spawns the UPDATE for: the row's, once found
Spawned(found) == IF found.ok THEN {found.info.token_id} ELSE {}

\* UPDATE postgate_tokens SET last_used_at = NOW() WHERE id = $1
UpdateLastUsed(tokens, token_id) ==
  {IF t.id = token_id THEN [t EXCEPT !.last_used_at = TRUE] ELSE t : t \in tokens}

\* DELETE FROM postgate_tokens WHERE id = $1
delete_token_wrongColumn(tokens, token_id) == {t \in tokens : t.database_id # token_id}

delete_token(tokens, token_id) == {t \in tokens : t.id # token_id}

\* delete_database after `self.get_database(id).await?`
\* the error of the lookup not propagated
AfterDeleteGet_ignoreNotFound(loaded) == [pc |-> "delete_row", db |-> loaded.config]

AfterDeleteGet(loaded) ==
  IF loaded.ok THEN [pc |-> "delete_row", db |-> loaded.config]
  ELSE [pc |-> "not_found", db |-> NoConfig]

\* delete_database after the DELETE: `if let DatabaseBackend::Schema`
AfterDeleteRow(db) ==
  IF db.backend.type = "Schema" THEN [pc |-> "drop_schema", db |-> db]
  ELSE [pc |-> "idle", db |-> NoConfig]

\* DELETE FROM postgate_databases WHERE id = $1
DeleteDatabaseRow_skipped(databases, id) == databases

DeleteDatabaseRow(databases, id) == {d \in databases : d.id # id}

\* postgate_tokens.database_id references postgate_databases: a token row
\* needs its database row, and goes with it
ForeignKeyHolds(databases, database_id) == \E d \in databases : d.id = database_id

OnDeleteCascade(tokens, databases) ==
  {t \in tokens : ForeignKeyHolds(databases, t.database_id)}

(* ------------------------------------------------------------------ *)
(* executor.rs                                                          *)
(* ------------------------------------------------------------------ *)
\* `db_config.max_rows as u32`: the 32 bits of the i32, as two 16-bit halves
\* (the value is hi * 65536 + lo)
AsU32(x) == [hi |-> (x \div 65536) % 65536, lo |-> x % 65536]

\* `rows.len() > max_rows as usize`, for a row count below 65536
\* the cap compared with >= instead of >
ExceedsU32_inclusive(n, cap) == cap.hi = 0 /\ n >= cap.lo

ExceedsU32(n, cap) == cap.hi = 0 /\ n > cap.lo

\* the phases of one attempt, in order
Phases(backend) ==
  IF backend.type = "Schema" THEN <<"begin", "set_local", "query", "commit">>
  ELSE <<"pool", "query">>

\* what can happen to an attempt: the deadline or a driver error in one of its
\* phases, or a fetch of n rows
Outcomes(backend, rows) ==
  {[kind |-> k, at |-> Phases(backend)[i], rows |-> 0] :
     k \in {"timeout", "error"}, i \in DOMAIN Phases(backend)}
  \cup {[kind |-> "rows", at |-> "-", rows |-> n] : n \in rows}

\* whether the user SQL was submitted in this attempt
Submitted(outcome) == outcome.kind = "rows" \/ outcome.at \in {"query", "commit"}

\* the elapsed deadline reported as a driver error
execute_timeoutAsDatabase(max_rows, outcome) ==
  CASE outcome.kind \in {"timeout", "error"} -> [ok |-> FALSE, err |-> "Database", row_count |-> 0]
    [] ExceedsU32(outcome.rows, max_rows) ->
         [ok |-> FALSE, err |-> "RowLimitExceeded", row_count |-> 0]
    [] OTHER -> [ok |-> TRUE, err |-> "-", row_count |-> outcome.rows]

\* the result of execute for an attempt with this outcome
execute(max_rows, outcome) ==
  CASE outcome.kind = "timeout" -> [ok |-> FALSE, err |-> "Timeout", row_count |-> 0]
    [] outcome.kind = "error" -> [ok |-> FALSE, err |-> "Database", row_count |-> 0]
    [] ExceedsU32(outcome.rows, max_rows) ->
         [ok |-> FALSE, err |-> "RowLimitExceeded", row_count |-> 0]
    [] OTHER -> [ok |-> TRUE, err |-> "-", row_count |-> outcome.rows]

(* ------------------------------------------------------------------ *)
(* server.rs: the steps of query_handler                                *)
(* ------------------------------------------------------------------ *)
\* no format check before the store: the lookup runs for any header value
AfterExtract_lookupAnyway(extracted) ==
  IF extracted.ok \/ extracted.err = "InvalidTokenFormat"
  THEN [pc |-> "lookup", response |-> NoResponse]
  ELSE [pc |-> "done", response |-> error_response(PostgateError("MissingAuth", "-"))]

\* get_token_info: the header, then the store; every failure is InvalidAuth
\* but a missing header
AfterExtract(extracted) ==
  IF extracted.ok THEN [pc |-> "lookup", response |-> NoResponse]
  ELSE IF extracted.err = "MissingHeader"
  THEN [pc |-> "done", response |-> error_response(PostgateError("MissingAuth", "-"))]
  ELSE [pc |-> "done", response |-> error_response(PostgateError("InvalidAuth", "-"))]

\* a lookup failure answered as a missing database
AfterLookup_notFound404(found) ==
  IF found.ok THEN [pc |-> "getdb", response |-> NoResponse]
  ELSE [pc |-> "done", response |-> error_response(PostgateError("DatabaseNotFound", "-"))]

AfterLookup(found) ==
  IF found.ok THEN [pc |-> "getdb", response |-> NoResponse]
  ELSE [pc |-> "done", response |-> error_response(PostgateError("InvalidAuth", "-"))]

\* get_token_info(store, auth_header): Ok(TokenInfo) or the error answered
\* with the queries it sent to the store: the SELECT of validate_token and
\* the UPDATE that validate_token spawns
get_token_info(tokens, auth_header) ==
  LET extracted == extract_token(auth_header)
      first == AfterExtract(extracted)
      looked == first.pc = "lookup"
      found == validate_token(tokens, compute_token_hash(extracted.token))
      step == IF looked THEN AfterLookup(found) ELSE first
  IN [done |-> TRUE,
      ok |-> step.pc = "getdb",
      err |-> IF extracted.ok THEN found.err ELSE extracted.err,
      info |-> IF looked THEN found.info ELSE NoTokenInfo,
      response |-> step.response,
      store_calls |-> IF looked
                      THEN <<"validate_token">>
                           \o (IF Spawned(found) # {} THEN <<"update last_used_at">> ELSE <<>>)
                      ELSE <<>>]

AfterGetDatabase_ignoreError(loaded) == [pc |-> "validate", response |-> NoResponse]

AfterGetDatabase(loaded) ==
  IF loaded.ok THEN [pc |-> "validate", response |-> NoResponse]
  ELSE [pc |-> "done", response |-> error_response(PostgateError("DatabaseNotFound", "-"))]

AfterExecute(result) ==
  IF result.ok THEN [pc |-> "done", response |-> [status |-> 200, code |-> "OK"]]
  ELSE [pc |-> "done", response |-> error_response(PostgateError("Executor", result.err))]

\* the rules query_handler validates with: the token's allowed operations
TokenRules(allowed_operations) ==
  [allowed_operations |-> allowed_operations,
   allowed_tables |-> None, denied_tables |-> {}]

(* ------------------------------------------------------------------ *)
(* Bounds and inputs of the pipeline                                    *)
(* ------------------------------------------------------------------ *)
MaxDbs == 1

MaxTokens == 2

DbIds == 1..MaxDbs

TokenIds == 1..MaxTokens

\* the permissions create_token is called with
PermissionInputs == {{"SELECT"}, {"SELECT", "INSERT", "UPDATE", "DELETE"}}

MaxRowsInputs == {1}

\* the number of rows a query can return
RowInputs == {0, 2}

StmtOn(variant, rels) == [variant |-> variant, object_type |-> "-", relations |-> rels]

\* DELETE FROM users / SELECT 1; SELECT 2
SqlDelete == <<StmtOn("Delete", <<<<IdUsers>>>>)>>

SqlStacked == <<StmtOn("Query", <<>>), StmtOn("Query", <<>>)>>

RequestSql == {SqlDelete, SqlStacked}

\* a well-formed token no one was given, and a string that is no token
UnknownToken == TokenString(TOKEN_PREFIX, HexLen, 0)

ShortToken == TokenString(TOKEN_PREFIX, HexLen - 1, 0)

(* ------------------------------------------------------------------ *)
(* State                                                                *)
(* ------------------------------------------------------------------ *)
VARIABLES
  vSql,       \* SpecV: the SQL text given to parse_and_validate
  vRules,     \* SpecV: the rules given to parse_and_validate
  vResult,    \* SpecV: what parse_and_validate returned
  vNext,      \* SpecV: where query_handler goes with it
  databases,  \* the rows of postgate_databases
  tokens,     \* the rows of postgate_tokens
  schemas,    \* the schemas of the shared cluster
  nextDb,     \* the id the next database row gets
  nextToken,  \* the id the next token row gets
  del,        \* the delete_database call in progress
  req,        \* a /query request
  touches,    \* the spawned last_used_at updates not yet run
  backend,    \* the user SQL submitted to a backend
  minted,     \* history: what create_token returned: <<token id, database id, token>>
  revoked,    \* history: the hashes of the rows delete_token removed
  gone,       \* history: the ids of the database rows deleted
  deleted,    \* history: the ids delete_database returned Ok for
  hHeader,    \* SpecH: the Authorization header given to get_token_info
  hTokens,    \* SpecH: the rows of postgate_tokens at the lookup
  hOut,       \* SpecH: what get_token_info returned
  xReq,       \* SpecX: the calls of ExecutorPool::execute
  conns,      \* SpecX: the connections of the shared pool
  pools,      \* SpecX: the keys of dedicated_pools
  pCall,      \* SpecP: the calls of get_or_create_dedicated_pool
  dedicated_pools, \* SpecP: the map, database id -> pool (0: no entry)
  connects,   \* SpecP, history: <<database id, pool>> of every pool built
  handed,     \* SpecP, history: <<database id, pool>> of every pool returned
  cIn,        \* SpecC: a stored max_rows, a backend and a fetched row count
  cOut        \* SpecC: what execute returned

vVars == <<vSql, vRules, vResult, vNext>>

storeVars == <<databases, tokens, schemas, nextDb, nextToken, del>>

histVars == <<minted, revoked, gone, deleted>>

hVars == <<hHeader, hTokens, hOut>>

xVars == <<xReq, conns, pools>>

pVars == <<pCall, dedicated_pools, connects, handed>>

cVars == <<cIn, cOut>>

vars == <<vVars, storeVars, req, touches, backend, histVars, hVars, xVars, pVars, cVars>>

NoResult == Err("-", <<>>)

\* Requests only read the store (the last_used_at update aside, which no
\* request reads), so one request running against every interleaving of the
\* store's operations shows what any request of a concurrent set can see.
IdleRequest ==
  [pc |-> "idle", token |-> NoToken, sql |-> <<>>,
   token_info |-> NoTokenInfo, db_config |-> NoConfig, parsed |-> NoResult,
   response |-> NoResponse, trace |-> <<>>, cause |-> "-",
   afterRevoke |-> FALSE, staleDb |-> FALSE]

NoDelete == [pc |-> "idle", db |-> NoConfig]

\* SpecH: nothing returned yet
NoAuth ==
  [done |-> FALSE, ok |-> FALSE, err |-> "-", info |-> NoTokenInfo, response |-> NoResponse,
   store_calls |-> <<>>]

InitAuth ==
  /\ hHeader = NoHeader
  /\ hTokens = {}
  /\ hOut = NoAuth

\* the search path of a new session
DefaultPath == <<"default">>

\* no search path recorded, none set
NoPath == <<>>

NoOutcome == [kind |-> "-", at |-> "-", rows |-> 0]

NoExec == [ok |-> FALSE, err |-> "-", row_count |-> 0]

NoSql == [statement |-> EmptySegment, sets_path |-> NoPath, writes |-> FALSE]

IdleCall ==
  [pc |-> "idle", database_id |-> 0, backend |-> NoConfig.backend, max_rows |-> 0,
   sql |-> NoSql, conn |-> 0, began_with |-> NoPath, ran_with |-> NoPath, sent |-> 0,
   rows |-> 0, outcome |-> NoOutcome, result |-> NoExec, log |-> <<>>,
   wrote |-> FALSE, persisted |-> FALSE]

\* a connection in the pool: no transaction open
PooledConn ==
  [owner |-> 0, session |-> DefaultPath, cur |-> DefaultPath, persist |-> NoPath,
   dirty |-> FALSE]

MaxCalls == 1

MaxConns == 1

Calls == 1..MaxCalls

ConnIds == 1..MaxConns

InitExecutor ==
  /\ xReq = [r \in Calls |-> IdleCall]
  /\ conns = [c \in ConnIds |-> PooledConn]
  /\ pools = {}

\* the keys of dedicated_pools: the ids of the Dedicated databases
PoolKeys == {1, 2}

MaxBuilders == 2

MaxPools == 2

Builders == 1..MaxBuilders

IdleBuilder == [pc |-> "idle", database_id |-> 0, built |-> 0, pool |-> 0]

\* ExecutorPool::new: dedicated_pools is empty
InitPools ==
  /\ pCall = [b \in Builders |-> IdleBuilder]
  /\ dedicated_pools = [k \in PoolKeys |-> 0]
  /\ connects = {}
  /\ handed = {}

\* no request is at the row cap
NoCap == [pc |-> "-", max_rows |-> 0, backend_type |-> "-", rows |-> 0]

NoCapped == [cap |-> [hi |-> 0, lo |-> 0], result |-> NoExec]

InitCap ==
  /\ cIn = NoCap
  /\ cOut = NoCapped

InitStore ==
  /\ databases = {}
  /\ tokens = {}
  /\ schemas = {}
  /\ nextDb = 1
  /\ nextToken = 1
  /\ del = NoDelete
  /\ req = IdleRequest
  /\ touches = {}
  /\ backend = {}
  /\ minted = {}
  /\ revoked = {}
  /\ gone = {}
  /\ deleted = {}

(* ----------------------------- SpecV ------------------------------- *)
InitV ==
  /\ vSql \in SqlInputs
  /\ vRules \in RulesInputs
  /\ vResult = NoResult
  /\ vNext = [pc |-> "validate", response |-> NoResponse]
  /\ InitStore
  /\ InitAuth
  /\ InitExecutor
  /\ InitPools
  /\ InitCap

\* query_handler's call of parse_and_validate and its `?`
Validate ==
  /\ vNext.pc = "validate"
  /\ \E r \in parse_and_validate(vSql, vRules) :
       /\ vResult' = r
       /\ vNext' = AfterParse(r)
  /\ UNCHANGED <<vSql, vRules, storeVars, req, touches, backend, histVars, hVars, xVars, pVars, cVars>>

NextV == Validate

SpecV == InitV /\ [][NextV]_vars

(* ------------------------------ Spec ------------------------------- *)
Init ==
  /\ vSql = <<>>
  /\ vRules = TokenRules({})
  /\ vResult = NoResult
  /\ vNext = [pc |-> "-", response |-> NoResponse]
  /\ InitStore
  /\ InitAuth
  /\ InitExecutor
  /\ InitPools
  /\ InitCap

\* Store::create_database: the row, then CREATE SCHEMA IF NOT EXISTS
CreateDatabase(backend_type, max_rows) ==
  /\ nextDb <= MaxDbs
  /\ databases' = databases \cup {DatabaseRow(nextDb, backend_type, max_rows)}
  /\ schemas' = IF backend_type = "schema" THEN schemas \cup {<<"db", nextDb>>} ELSE schemas
  /\ nextDb' = nextDb + 1
  /\ UNCHANGED <<vVars, hVars, xVars, pVars, cVars, tokens, nextToken, del, req, touches, backend, histVars>>

\* Store::create_token: the INSERT fails, and changes nothing, when the
\* database row is missing
CreateToken(database_id, permissions) ==
  /\ nextToken <= MaxTokens
  /\ ForeignKeyHolds(databases, database_id)
  /\ tokens' = tokens \cup
       {TokenRow(nextToken, database_id, permissions, generate_token(nextToken))}
  /\ nextToken' = nextToken + 1
  /\ minted' = minted \cup {create_token_returns(nextToken, database_id, generate_token(nextToken))}
  /\ UNCHANGED <<vVars, hVars, xVars, pVars, cVars, databases, schemas, nextDb, del, req, touches, backend,
                 revoked, gone, deleted>>

\* Store::delete_token, for the id of a row
DeleteToken(token_id) ==
  /\ \E t \in tokens : t.id = token_id
  /\ tokens' = delete_token(tokens, token_id)
  /\ revoked' = revoked \cup {t.token_hash : t \in {u \in tokens : u.id = token_id}}
  /\ UNCHANGED <<vVars, hVars, xVars, pVars, cVars, databases, schemas, nextDb, nextToken, del, req, touches,
                 backend, minted, gone, deleted>>

\* Store::delete_database, first query: get_database(id)?  (NotFound
\* returns at once and changes nothing)
DeleteDatabaseGet(id) ==
  /\ del.pc = "idle"
  /\ del' = AfterDeleteGet(get_database(databases, id))
  /\ UNCHANGED <<vVars, hVars, xVars, pVars, cVars, databases, tokens, schemas, nextDb, nextToken, req, touches,
                 backend, histVars>>

\* Err(NotFound) goes back to the caller
DeleteDatabaseNotFound ==
  /\ del.pc = "not_found"
  /\ del' = NoDelete
  /\ UNCHANGED <<vVars, hVars, xVars, pVars, cVars, databases, tokens, schemas, nextDb, nextToken, req, touches,
                 backend, histVars>>

\* the DELETE of the row, and with it of the database's token rows; a driver
\* error returns with nothing deleted
DeleteDatabaseDelete(ok) ==
  /\ del.pc = "delete_row"
  /\ databases' = IF ok THEN DeleteDatabaseRow(databases, del.db.id) ELSE databases
  /\ tokens' = OnDeleteCascade(tokens, databases')
  /\ gone' = gone \cup {d.id : d \in databases \ databases'}
  /\ del' = IF ok THEN AfterDeleteRow(del.db) ELSE NoDelete
  /\ deleted' = IF ok /\ del'.pc = "idle" THEN deleted \cup {del.db.id} ELSE deleted
  /\ UNCHANGED <<vVars, hVars, xVars, pVars, cVars, schemas, nextDb, nextToken, req, touches, backend,
                 minted, revoked>>

DeleteDatabaseDropSchema ==
  /\ del.pc = "drop_schema"
  /\ schemas' = schemas \ {del.db.backend.name}
  /\ del' = NoDelete
  /\ deleted' = deleted \cup {del.db.id}
  /\ UNCHANGED <<vVars, hVars, xVars, pVars, cVars, databases, tokens, nextDb, nextToken, req, touches, backend,
                 minted, revoked, gone>>

\* A POST /query arrives and get_token_info runs: extract_token,
\* compute_token_hash, then store.validate_token, which spawns the
\* last_used_at update when it finds the row; `fault` is a driver error of
\* the SELECT, `update_ok` the fate of the spawned UPDATE.
ReqAuth(header, sql, fault, update_ok) ==
  /\ req.pc = "idle"
  /\ LET extracted == extract_token(header)
         token_hash == compute_token_hash(extracted.token)
         row == IF fault THEN [ok |-> FALSE, err |-> "Database", info |-> NoTokenInfo]
                ELSE validate_token(tokens, token_hash)
         found == Returns(row, update_ok)
         step == IF extracted.ok THEN AfterLookup(found) ELSE AfterExtract(extracted)
     IN
     /\ fault => extracted.ok
     /\ req' = [req EXCEPT
          !.pc = step.pc,
          !.token = extracted.token,
          !.sql = sql,
          !.response = step.response,
          !.token_info = IF extracted.ok THEN found.info ELSE NoTokenInfo,
          !.cause = IF extracted.ok THEN found.err ELSE extracted.err,
          !.trace = IF step.pc = "getdb" THEN Append(@, "token") ELSE @,
          !.afterRevoke = extracted.ok /\ token_hash \in revoked,
          !.staleDb = /\ extracted.ok
                      /\ token_hash \notin revoked
                      /\ \E m \in minted :
                           /\ generate_token(m[1]).token_hash = token_hash
                           /\ m[2] \in gone]
     /\ touches' = IF extracted.ok THEN touches \cup Spawned(row) ELSE touches
  /\ UNCHANGED <<vVars, hVars, xVars, pVars, cVars, storeVars, backend, histVars>>

\* the spawned task: the UPDATE runs, whenever it is scheduled, or fails;
\* `let _ =` drops its result
TouchLastUsed(token_id, ok) ==
  /\ token_id \in touches
  /\ touches' = touches \ {token_id}
  /\ tokens' = IF ok THEN UpdateLastUsed(tokens, token_id) ELSE tokens
  /\ UNCHANGED <<vVars, hVars, xVars, pVars, cVars, databases, schemas, nextDb, nextToken, del, req, backend,
                 histVars>>

\* query_handler: store.get_database(token_info.database_id)
ReqGetDatabase(fault) ==
  /\ req.pc = "getdb"
  /\ LET loaded == IF fault THEN [ok |-> FALSE, err |-> "Database", config |-> NoConfig]
                   ELSE get_database(databases, req.token_info.database_id)
         step == AfterGetDatabase(loaded)
     IN
     req' = [req EXCEPT
       !.pc = step.pc,
       !.response = step.response,
       !.db_config = loaded.config,
       !.cause = loaded.err,
       !.trace = IF step.pc = "validate" THEN Append(@, "database") ELSE @]
  /\ UNCHANGED <<vVars, hVars, xVars, pVars, cVars, storeVars, touches, backend, histVars>>

\* query_handler: parse_and_validate(&body.sql, &token_info.allowed_operations)
ReqValidate ==
  /\ req.pc = "validate"
  /\ \E parsed \in parse_and_validate(req.sql, TokenRules(req.token_info.allowed_operations)) :
       LET step == AfterParse(parsed) IN
       req' = [req EXCEPT
         !.pc = step.pc,
         !.response = step.response,
         !.parsed = parsed,
         !.cause = parsed.err,
         !.trace = IF step.pc = "execute" THEN Append(@, "sql") ELSE @]
  /\ UNCHANGED <<vVars, hVars, xVars, pVars, cVars, storeVars, touches, backend, histVars>>

\* query_handler: executor_pool.execute(...), one attempt
ReqExecute(outcome) ==
  /\ req.pc = "execute"
  /\ outcome \in Outcomes(req.db_config.backend, RowInputs)
  /\ LET result == execute(AsU32(req.db_config.max_rows), outcome)
         step == AfterExecute(result)
     IN
     req' = [req EXCEPT
       !.pc = step.pc,
       !.response = step.response,
       !.cause = result.err,
       !.trace = Append(@, "execute")]
  /\ backend' = IF Submitted(outcome)
                THEN backend \cup {[sql |-> req.sql, target |-> req.db_config.backend]}
                ELSE backend
  /\ UNCHANGED <<vVars, hVars, xVars, pVars, cVars, storeVars, touches, histVars>>

\* the Authorization headers a client can send: none, a malformed token, a
\* well-formed token never minted, and the tokens minted so far
HeaderInputs ==
  {NoHeader, Header("Bearer", ShortToken), Header("Bearer", UnknownToken)}
  \cup {Header("Bearer", generate_token(n).full_token) : n \in 1..(nextToken - 1)}

AllOutcomes ==
  Outcomes([type |-> "Schema"], RowInputs) \cup Outcomes([type |-> "Dedicated"], RowInputs)

Next ==
  \/ \E b \in {"schema", "dedicated"}, m \in MaxRowsInputs : CreateDatabase(b, m)
  \/ \E d \in DbIds, p \in PermissionInputs : CreateToken(d, p)
  \/ \E t \in TokenIds : DeleteToken(t)
  \/ \E d \in {i \in DbIds : get_database(databases, i).ok} : DeleteDatabaseGet(d)
  \/ \E ok \in BOOLEAN : DeleteDatabaseDelete(ok)
  \/ DeleteDatabaseDropSchema
  \/ \E h \in HeaderInputs, q \in RequestSql, fault \in BOOLEAN, u \in BOOLEAN :
       ReqAuth(h, q, fault, u)
  \/ \E t \in touches, ok \in BOOLEAN : TouchLastUsed(t, ok)
  \/ \E fault \in BOOLEAN : ReqGetDatabase(fault)
  \/ ReqValidate
  \/ \E o \in AllOutcomes : ReqExecute(o)

Spec == Init /\ [][Next]_vars

(* ------------------------------ SpecX ------------------------------ *)
(* ExecutorPool::execute step by step: every .await of execute_with_schema *)
(* and execute_dedicated is a step, and the deadline of execute can hit    *)
(* while any of them is pending.                                           *)

\* the backends execute is called with; the schema name of the second has a
\* double quote in it
XTargets ==
  {[database_id |-> 1, backend |-> [type |-> "Schema", name |-> <<"db", "1">>]],
   [database_id |-> 2, backend |-> [type |-> "Schema", name |-> <<"db", "\"", "2">>]],
   [database_id |-> 3, backend |-> [type |-> "Dedicated", name |-> <<"postgres", 3>>]]}

\* the user SQL: SELECT * FROM users;
\* SELECT set_config('search_path', 'other', false), a query without table
\* references that sets the search path of the session;
\* DELETE FROM users RETURNING *, which changes the tenant's data
XSqlInputs ==
  {[statement |-> StmtOn("Query", <<<<IdUsers>>>>), sets_path |-> NoPath, writes |-> FALSE],
   [statement |-> StmtOn("Query", <<>>), sets_path |-> <<"other">>, writes |-> FALSE],
   [statement |-> StmtOn("Delete", <<<<IdUsers>>>>), sets_path |-> NoPath, writes |-> TRUE]}

\* the rows a fetch can return: fewer than, as many as, more than max_rows
XRowInputs == {0, 1, 2}

\* the phase of Phases(backend) a step belongs to
PhaseOf(pc) == IF pc \in {"pool", "connect", "insert"} THEN "pool" ELSE pc

\* schema_name.replace('"', "\"\""): every double quote doubled
RECURSIVE safe_schema(_)
safe_schema(schema_name) ==
  IF schema_name = <<>> THEN <<>>
  ELSE (IF Head(schema_name) = "\"" THEN <<"\"", "\"">> ELSE <<Head(schema_name)>>)
       \o safe_schema(Tail(schema_name))

\* the server reading the text between the quotes of "<text>": a doubled
\* quote is one quote, a single one ends the identifier
RECURSIVE QuotedIdentifier(_)
QuotedIdentifier(text) ==
  IF text = <<>> THEN <<>>
  ELSE IF Head(text) # "\"" THEN <<Head(text)>> \o QuotedIdentifier(Tail(text))
  ELSE IF Len(text) >= 2 /\ text[2] = "\"" THEN <<"\"">> \o QuotedIdentifier(Tail(Tail(text)))
  ELSE <<>>

\* a statement a call issued: on which connection, with what argument, and
\* whether it completed
Issued(stmt, conn, arg, ok) == [stmt |-> stmt, conn |-> conn, arg |-> arg, ok |-> ok]

\* execute_with_schema, the step after a step that succeeded
SchemaStep_queryFirst(pc) ==
  CASE pc = "begin" -> "query"
    [] pc = "query" -> "set_local"
    [] pc = "set_local" -> "commit"
    [] OTHER -> "done"

SchemaStep(pc) ==
  CASE pc = "begin" -> "set_local"
    [] pc = "set_local" -> "query"
    [] pc = "query" -> "commit"
    [] OTHER -> "done"

\* shared_pool.begin(): a connection is checked out and BEGIN issued
BeginTx(conn, r) ==
  [conn EXCEPT !.owner = r, !.cur = conn.session, !.persist = NoPath, !.dirty = FALSE]

\* SET LOCAL search_path TO "<schema>": lasts to the end of the transaction
SetLocalSearchPath(conn, schema) == [conn EXCEPT !.cur = schema]

\* the user statement runs in the transaction: its changes of the data are
\* pending until COMMIT; a session-level setting it makes replaces the
\* transaction-local one and is kept by COMMIT
RunUserSql(conn, sql) ==
  IF sql.sets_path = NoPath THEN [conn EXCEPT !.dirty = sql.writes]
  ELSE [conn EXCEPT !.cur = sql.sets_path, !.persist = sql.sets_path, !.dirty = sql.writes]

\* tx.commit(): the connection goes back to the pool
CommitTx(conn) ==
  LET session == IF conn.persist = NoPath THEN conn.session ELSE conn.persist IN
  [owner |-> 0, session |-> session, cur |-> session, persist |-> NoPath, dirty |-> FALSE]

\* the transaction is dropped without commit: rollback, back to the pool
RollbackTx(conn) ==
  [owner |-> 0, session |-> conn.session, cur |-> conn.session, persist |-> NoPath,
   dirty |-> FALSE]

\* a step failed with a driver error: `?` returns it, nothing is retried and
\* nothing after it runs
OnDriverError_commitAnyway(pc) == IF pc \in {"set_local", "query"} THEN "commit" ELSE "done"

OnDriverError_retry(pc) == IF pc = "query" THEN "query" ELSE "done"

OnDriverError(pc) == "done"

\* the call returns: the outcome of the attempt through execute's match
Finished(call, outcome) ==
  [call EXCEPT !.pc = "done", !.conn = 0, !.outcome = outcome,
               !.result = execute(AsU32(call.max_rows), outcome)]

Failed(call) ==
  IF OnDriverError(call.pc) = "done"
  THEN Finished(call, [kind |-> "error", at |-> PhaseOf(call.pc), rows |-> 0])
  ELSE [call EXCEPT !.pc = OnDriverError(call.pc)]

\* a failed step ends the call and its transaction is dropped, or the call
\* goes on with the transaction open
AfterFailure(conn, pc) == IF OnDriverError(pc) = "done" THEN RollbackTx(conn) ELSE conn

\* what the executor leaves alone
xOther == <<vVars, hVars, pVars, cVars, storeVars, req, touches, backend, histVars>>

\* execute(database_id, backend, request, max_rows, timeout_seconds), called
\* by query_handler with SQL that parse_and_validate accepted for a token
\* allowed to SELECT and DELETE
XStart(r, target, max_rows, sql) ==
  /\ xReq[r].pc = "idle"
  /\ \A parsed \in parse_and_validate(<<sql.statement>>, TokenRules({"SELECT", "DELETE"})) :
       AfterParse(parsed).pc = "execute"
  /\ target.backend.type = "Dedicated" => sql.sets_path = NoPath
  /\ xReq' = [xReq EXCEPT ![r] =
       [IdleCall EXCEPT !.pc = IF target.backend.type = "Schema" THEN "begin" ELSE "pool",
                        !.database_id = target.database_id, !.backend = target.backend,
                        !.max_rows = max_rows, !.sql = sql]]
  /\ UNCHANGED <<conns, pools, xOther>>

\* execute_with_schema: self.shared_pool.begin().await?
XBegin(r, c, ok) ==
  /\ xReq[r].pc = "begin"
  /\ IF ok
     THEN /\ conns[c].owner = 0
          /\ conns' = [conns EXCEPT ![c] = BeginTx(@, r)]
          /\ xReq' = [xReq EXCEPT ![r].pc = SchemaStep("begin"), ![r].conn = c,
                                  ![r].began_with = conns[c].session,
                                  ![r].log = Append(@, Issued("BEGIN", c, NoPath, TRUE))]
     ELSE /\ c = 1
          /\ xReq' = [xReq EXCEPT ![r] =
               Failed([@ EXCEPT !.log = Append(@, Issued("BEGIN", 0, NoPath, FALSE))])]
          /\ UNCHANGED <<conns, xOther>>
  /\ UNCHANGED <<pools, xOther>>

\* execute_with_schema: SET LOCAL search_path TO "<schema>"
XSetLocal(r, ok) ==
  /\ xReq[r].pc = "set_local"
  /\ LET c == xReq[r].conn
         text == safe_schema(xReq[r].backend.name)
         call == [xReq[r] EXCEPT !.log = Append(@, Issued("SET LOCAL", c, text, ok))]
     IN
     IF ok
     THEN /\ conns' = [conns EXCEPT ![c] = SetLocalSearchPath(@, QuotedIdentifier(text))]
          /\ xReq' = [xReq EXCEPT ![r] = [call EXCEPT !.pc = SchemaStep("set_local")]]
     ELSE /\ conns' = [conns EXCEPT ![c] = AfterFailure(@, "set_local")]
          /\ xReq' = [xReq EXCEPT ![r] = Failed(call)]
  /\ UNCHANGED <<pools, xOther>>

\* query.fetch_all(...).await?: on the transaction (Schema) or on the
\* dedicated pool
XQuery(r, ok, n) ==
  /\ xReq[r].pc = "query"
  /\ LET c == xReq[r].conn
         call == [xReq[r] EXCEPT
                    !.sent = @ + 1,
                    !.ran_with = IF c = 0 THEN NoPath ELSE conns[c].cur,
                    !.log = Append(@, Issued("QUERY", c, NoPath, ok))]
     IN
     IF ok
     THEN IF c = 0
          THEN /\ xReq' = [xReq EXCEPT ![r] =
                    Finished([call EXCEPT !.wrote = call.sql.writes,
                                          !.persisted = call.sql.writes],
                             [kind |-> "rows", at |-> "-", rows |-> n])]
               /\ UNCHANGED <<conns, xOther>>
          ELSE /\ xReq' = [xReq EXCEPT ![r] =
                    [call EXCEPT !.pc = SchemaStep("query"), !.rows = n,
                                 !.wrote = call.sql.writes]]
               /\ conns' = [conns EXCEPT ![c] = RunUserSql(@, call.sql)]
     ELSE /\ n = 0
          /\ xReq' = [xReq EXCEPT ![r] = Failed(call)]
          /\ conns' = IF c = 0 THEN conns ELSE [conns EXCEPT ![c] = AfterFailure(@, "query")]
  /\ UNCHANGED <<pools, xOther>>

\* execute_with_schema: tx.commit().await?; a commit that fails may or may
\* not have taken effect
XCommit(r, ok, landed) ==
  /\ xReq[r].pc = "commit"
  /\ ok => landed
  /\ LET c == xReq[r].conn
         call == [xReq[r] EXCEPT !.log = Append(@, Issued("COMMIT", c, NoPath, ok)),
                                 !.persisted = landed /\ conns[c].dirty]
     IN
     /\ conns' = [conns EXCEPT ![c] = IF landed THEN CommitTx(@) ELSE RollbackTx(@)]
     /\ xReq' = [xReq EXCEPT ![r] =
          IF ok THEN Finished(call, [kind |-> "rows", at |-> "-", rows |-> xReq[r].rows])
          ELSE Failed(call)]
  /\ UNCHANGED <<pools, xOther>>

\* get_or_create_dedicated_pool: the read of dedicated_pools
XPoolCheck(r) ==
  /\ xReq[r].pc = "pool"
  /\ xReq' = [xReq EXCEPT ![r].pc =
       IF xReq[r].database_id \in pools THEN "query" ELSE "connect"]
  /\ UNCHANGED <<conns, pools, xOther>>

\* get_or_create_dedicated_pool: PgPoolOptions::connect(...).await?
XPoolConnect(r, ok) ==
  /\ xReq[r].pc = "connect"
  /\ xReq' = [xReq EXCEPT ![r] = IF ok THEN [@ EXCEPT !.pc = "insert"] ELSE Failed(@)]
  /\ UNCHANGED <<conns, pools, xOther>>

\* get_or_create_dedicated_pool: pools.insert(database_id, pool)
XPoolInsert(r) ==
  /\ xReq[r].pc = "insert"
  /\ pools' = pools \cup {xReq[r].database_id}
  /\ xReq' = [xReq EXCEPT ![r].pc = "query"]
  /\ UNCHANGED <<conns, xOther>>

\* the deadline of execute expires while a step is pending: the attempt is
\* dropped, its transaction with it; the statement in flight may or may not
\* have reached the server
XDeadline(r, landed) ==
  /\ xReq[r].pc \notin {"idle", "done"}
  /\ landed => xReq[r].pc \in {"query", "commit"}
  /\ LET c == xReq[r].conn
         call == CASE landed /\ xReq[r].pc = "query" ->
                        [xReq[r] EXCEPT !.sent = @ + 1,
                                        !.ran_with = IF c = 0 THEN NoPath ELSE conns[c].cur,
                                        !.log = Append(@, Issued("QUERY", c, NoPath, FALSE)),
                                        !.wrote = xReq[r].sql.writes,
                                        !.persisted = c = 0 /\ xReq[r].sql.writes]
                   [] landed /\ xReq[r].pc = "commit" ->
                        [xReq[r] EXCEPT !.log = Append(@, Issued("COMMIT", c, NoPath, FALSE)),
                                        !.persisted = conns[c].dirty]
                   [] OTHER -> xReq[r]
     IN
     /\ xReq' = [xReq EXCEPT ![r] =
          Finished(call, [kind |-> "timeout", at |-> PhaseOf(call.pc), rows |-> 0])]
     /\ conns' = IF c = 0 THEN conns
                 ELSE [conns EXCEPT ![c] =
                        IF landed /\ call.pc = "commit" THEN CommitTx(@) ELSE RollbackTx(@)]
  /\ UNCHANGED <<pools, xOther>>

\* the caller has the result; the task ends
XReturn(r) ==
  /\ xReq[r].pc = "done"
  /\ xReq' = [xReq EXCEPT ![r] = IdleCall]
  /\ UNCHANGED <<conns, pools, xOther>>

NextX ==
  \/ \E r \in Calls, t \in XTargets, m \in MaxRowsInputs, q \in XSqlInputs :
       XStart(r, t, m, q)
  \/ \E r \in Calls, c \in ConnIds, ok \in BOOLEAN : XBegin(r, c, ok)
  \/ \E r \in Calls, ok \in BOOLEAN : XSetLocal(r, ok)
  \/ \E r \in Calls, ok \in BOOLEAN, n \in XRowInputs : XQuery(r, ok, n)
  \/ \E r \in Calls, ok \in BOOLEAN, landed \in BOOLEAN : XCommit(r, ok, landed)
  \/ \E r \in Calls : XPoolCheck(r)
  \/ \E r \in Calls, ok \in BOOLEAN : XPoolConnect(r, ok)
  \/ \E r \in Calls : XPoolInsert(r)
  \/ \E r \in Calls, landed \in BOOLEAN : XDeadline(r, landed)
  \/ \E r \in Calls : XReturn(r)

SpecX == Init /\ [][NextX]_vars

(* ------------------------------ SpecP ------------------------------ *)
(* get_or_create_dedicated_pool called by concurrent requests: the block   *)
(* under the read lock, connect() under no lock, the block under the write *)
(* lock.                                                                   *)

\* pools.get(&database_id): Some(pool) or None
get(map, key) == map[key]

\* pools.insert(database_id, pool): HashMap::insert puts the value under the
\* key, whether or not the key has one
insert(map, key, value) == [map EXCEPT ![key] = value]

\* the pool a connect() builds: a new one each time
NewPool == Cardinality(connects) + 1

pOther == <<vVars, hVars, xVars, cVars, storeVars, req, touches, backend, histVars>>

\* execute_dedicated calls get_or_create_dedicated_pool(database_id, ...)
PStart(b, database_id) ==
  /\ pCall[b].pc = "idle"
  /\ pCall' = [pCall EXCEPT ![b] = [IdleBuilder EXCEPT !.pc = "read",
                                                     !.database_id = database_id]]
  /\ UNCHANGED <<dedicated_pools, connects, handed, pOther>>

\* the block under dedicated_pools.read(): return the entry if there is one
PRead(b) ==
  /\ pCall[b].pc = "read"
  /\ LET pool == get(dedicated_pools, pCall[b].database_id) IN
     IF pool # 0
     THEN /\ pCall' = [pCall EXCEPT ![b].pc = "done", ![b].pool = pool]
          /\ handed' = handed \cup {<<pCall[b].database_id, pool>>}
     ELSE /\ pCall' = [pCall EXCEPT ![b].pc = "connect"]
          /\ UNCHANGED handed
  /\ UNCHANGED <<dedicated_pools, connects, pOther>>

\* PgPoolOptions::new().max_connections(10).connect(...).await?
PConnect(b, ok) ==
  /\ pCall[b].pc = "connect"
  /\ IF ok
     THEN /\ Cardinality(connects) < MaxPools
          /\ pCall' = [pCall EXCEPT ![b].pc = "write", ![b].built = NewPool]
          /\ connects' = connects \cup {<<pCall[b].database_id, NewPool>>}
     ELSE /\ pCall' = [pCall EXCEPT ![b].pc = "done"]
          /\ UNCHANGED connects
  /\ UNCHANGED <<dedicated_pools, handed, pOther>>

\* the block under dedicated_pools.write(): insert, then Ok(pool)
PInsert(b) ==
  /\ pCall[b].pc = "write"
  /\ dedicated_pools' = insert(dedicated_pools, pCall[b].database_id, pCall[b].built)
  /\ pCall' = [pCall EXCEPT ![b].pc = "done", ![b].pool = pCall[b].built]
  /\ handed' = handed \cup {<<pCall[b].database_id, pCall[b].built>>}
  /\ UNCHANGED <<connects, pOther>>

\* the request that called is over
PReturn(b) ==
  /\ pCall[b].pc = "done"
  /\ pCall' = [pCall EXCEPT ![b] = IdleBuilder]
  /\ UNCHANGED <<dedicated_pools, connects, handed, pOther>>

NextP ==
  \/ \E b \in Builders, k \in PoolKeys : PStart(b, k)
  \/ \E b \in Builders : PRead(b)
  \/ \E b \in Builders, ok \in BOOLEAN : PConnect(b, ok)
  \/ \E b \in Builders : PInsert(b)
  \/ \E b \in Builders : PReturn(b)

SpecP == Init /\ [][NextP]_vars

(* ------------------------------ SpecC ------------------------------ *)
(* The row cap of one request: the max_rows column as create_database     *)
(* stored it, through get_database and the cast of query_handler, to the   *)
(* comparison of execute with the number of rows fetched.                  *)

\* the max_rows create_database and the CLI can store: any i32
StoredMaxRowsInputs == {-2147483647, -2, -1, 0, 1, 2, 3, 2147483647}

\* the number of rows the fetch returns
FetchedInputs == {0, 1, 2, 3}

InitC ==
  /\ vSql = <<>>
  /\ vRules = TokenRules({})
  /\ vResult = NoResult
  /\ vNext = [pc |-> "-", response |-> NoResponse]
  /\ InitStore
  /\ InitAuth
  /\ InitExecutor
  /\ InitPools
  /\ cIn \in [pc : {"getdb"}, max_rows : StoredMaxRowsInputs,
               backend_type : {"schema", "dedicated"}, rows : FetchedInputs]
  /\ cOut = NoCapped

cOther == <<vVars, hVars, xVars, pVars, storeVars, req, touches, backend, histVars>>

\* query_handler: get_database returns the stored row as DatabaseConfig, and
\* the i32 max_rows is cast with `as u32` for execute
CGetDatabase ==
  /\ cIn.pc = "getdb"
  /\ LET loaded == get_database({DatabaseRow(1, cIn.backend_type, cIn.max_rows)}, 1) IN
     /\ loaded.ok
     /\ cOut' = [cOut EXCEPT !.cap = AsU32(loaded.config.max_rows)]
  /\ cIn' = [cIn EXCEPT !.pc = "execute"]
  /\ UNCHANGED cOther

\* execute: the fetch returned cIn.rows rows; rows.len() > max_rows as usize
CExecute ==
  /\ cIn.pc = "execute"
  /\ cOut' = [cOut EXCEPT !.result =
       execute(cOut.cap, [kind |-> "rows", at |-> "-", rows |-> cIn.rows])]
  /\ cIn' = [cIn EXCEPT !.pc = "done"]
  /\ UNCHANGED cOther

NextC == CGetDatabase \/ CExecute

SpecC == InitC /\ [][NextC]_vars

(* ------------------------------ SpecD ------------------------------ *)
\* The store alone, with delete_database called for any id; in Spec the call
\* for an id that has no row, which changes nothing, is left out.
NextD ==
  \/ \E b \in {"schema", "dedicated"}, m \in MaxRowsInputs : CreateDatabase(b, m)
  \/ \E d \in DbIds, p \in PermissionInputs : CreateToken(d, p)
  \/ \E t \in TokenIds : DeleteToken(t)
  \/ \E d \in DbIds : DeleteDatabaseGet(d)
  \/ DeleteDatabaseNotFound
  \/ \E ok \in BOOLEAN : DeleteDatabaseDelete(ok)
  \/ DeleteDatabaseDropSchema

SpecD == Init /\ [][NextD]_vars

(* ------------------------------ SpecH ------------------------------ *)
\* get_token_info as a function of the header and of the token rows
MaxPad == 1

\* the token texts a client can put in the header
TokenInputs ==
  {ShortToken, UnknownToken} \cup {generate_token(n).full_token : n \in TokenIds}

\* absent, or a scheme and a token with whitespace around them
AuthHeaderInputs ==
  {NoHeader}
  \cup {Padded(Header(scheme, token), lead, trail) :
          scheme \in {"Bearer", "", "Basic"}, token \in TokenInputs,
          lead \in 0..MaxPad, trail \in 0..MaxPad}

\* the strings a row can hold in allowed_operations: names of operations,
\* other strings, none
StoredOpsInputs ==
  {{"SELECT"}, {"select", "TRUNCATE"}, {"SELECT", "select", "DELETE", "DROP"}, {}}

\* the rows postgate_tokens can hold
TokenRowInputs ==
  UNION {{{TokenRow(n, 1, f[n], generate_token(n)) : n \in S} : f \in [S -> StoredOpsInputs]} :
           S \in SUBSET TokenIds}

\* the database rows the store can hold
DatabaseRowInputs == {{}, {DatabaseRow(1, "schema", 1)}}

\* DELETE FROM users / SELECT * FROM users
HSqlInputs == {SqlDelete, <<StmtOn("Query", <<<<IdUsers>>>>)>>}

InitH ==
  /\ vSql \in HSqlInputs
  /\ vRules = TokenRules({})
  /\ vResult = NoResult
  /\ vNext = [pc |-> "-", response |-> NoResponse]
  /\ databases \in DatabaseRowInputs
  /\ tokens = {} /\ schemas = {} /\ nextDb = 1 /\ nextToken = 1 /\ del = NoDelete
  /\ req = IdleRequest /\ touches = {} /\ backend = {}
  /\ minted = {} /\ revoked = {} /\ gone = {} /\ deleted = {}
  /\ InitExecutor
  /\ InitPools
  /\ InitCap
  /\ hHeader \in AuthHeaderInputs
  /\ hTokens \in TokenRowInputs
  /\ hOut = NoAuth

hOther == <<xVars, pVars, cVars, storeVars, req, touches, backend, histVars>>

\* query_handler: get_token_info(&req, &state).await?
Authenticate ==
  /\ ~hOut.done
  /\ hOut' = get_token_info(hTokens, hHeader)
  /\ UNCHANGED <<vVars, hHeader, hTokens, hOther>>

\* query_handler: store.get_database(token_info.database_id), after
\* get_token_info returned Ok
HGetDatabase ==
  /\ hOut.done /\ hOut.ok
  /\ vNext.pc = "-"
  /\ vNext' = AfterGetDatabase(get_database(databases, hOut.info.database_id))
  /\ UNCHANGED <<vSql, vRules, vResult, hVars, hOther>>

\* query_handler: parse_and_validate(&body.sql, &token_info.allowed_operations)?;
\* a statement that passes goes to the executor
HValidate ==
  /\ vNext.pc = "validate"
  /\ vRules' = TokenRules(hOut.info.allowed_operations)
  /\ \E r \in parse_and_validate(vSql, vRules') :
       /\ vResult' = r
       /\ vNext' = AfterParse(r)
  /\ UNCHANGED <<vSql, hVars, hOther>>

NextH ==
  \/ Authenticate
  \/ HGetDatabase
  \/ HValidate

SpecH == InitH /\ [][NextH]_vars

(* ================================================================== *)
(* The claims                                                           *)
(* ================================================================== *)
\* the call of parse_and_validate has returned
Validated == vNext.pc # "validate"

\* the non-empty segments of the text, as written
SegmentsOf(sql) == SelectSeq(sql, LAMBDA s : s # EmptySegment)

\* every non-empty segment of the text is a statement
AllStatements(sql) == \A i \in DOMAIN sql : sql[i] # Unparsable

SingleStatement == AllStatements(vSql) /\ Len(SegmentsOf(vSql)) = 1

TheStatement == SegmentsOf(vSql)[1]

\* the classification of section 4.B, step 3
ClassOf(statement) ==
  CASE statement.variant = "Query" -> "SELECT"
    [] statement.variant = "Insert" -> "INSERT"
    [] statement.variant = "Update" -> "UPDATE"
    [] statement.variant = "Delete" -> "DELETE"
    [] statement.variant \in {"CreateTable", "CreateIndex", "CreateView"} -> "CREATE"
    [] statement.variant \in {"AlterTable", "AlterIndex"} -> "ALTER"
    [] statement.variant = "Truncate" -> "DROP"
    [] statement.variant = "Drop" /\ statement.object_type # "Schema" -> "DROP"
    [] OTHER -> "-"

IsDml(statement) == statement.variant \in {"Query", "Insert", "Update", "Delete"}

Qualified(rel) == Len(rel) >= 2

SystemName(name) ==
  \/ starts_with(to_lowercase(name), <<"p","g","_">>)
  \/ to_lowercase(name) = InformationSchema

\* a reference that validate must not let through
Rejected(rel) == Qualified(rel) \/ SystemName(rel[Len(rel)])

\* the first reference of the statement that is rejected
FirstRejected(statement) ==
  LET bad == {i \in DOMAIN statement.relations : Rejected(statement.relations[i])} IN
  CHOOSE i \in bad : \A j \in bad : i <= j

HasRejected(statement) == \E i \in DOMAIN statement.relations : Rejected(statement.relations[i])

BareNames(statement) == {statement.relations[i][1] : i \in DOMAIN statement.relations}

TableRulesPass(statement) ==
  \A n \in BareNames(statement) :
    /\ to_lowercase(n) \notin vRules.denied_tables
    /\ vRules.allowed_tables.some => to_lowercase(n) \in vRules.allowed_tables.value

ParseError400 == [pc |-> "done", response |-> [status |-> 400, code |-> "PARSE_ERROR"]]

\* C2: a text of two or more statements separated by ';' yields
\* MultipleStatements whatever the allowed operations are, and the handler
\* answers 400 PARSE_ERROR and does not go on to execute; a text with two or
\* more non-empty segments never reaches execute either.
C2_MultipleStatements ==
  (Validated /\ Len(SegmentsOf(vSql)) >= 2) =>
    /\ vNext = ParseError400
    /\ AllStatements(vSql) => vResult = Err("MultipleStatements", <<>>)

C2_Witness ==
  /\ Validated
  /\ AllStatements(vSql)
  /\ Len(SegmentsOf(vSql)) = 2
  /\ vRules.allowed_operations = {}
  /\ vResult.err = "MultipleStatements"
  /\ vNext.response.status = 400

\* C3 as amended: a supported single statement with a schema-qualified
\* reference is always rejected and nothing qualified enters
\* ParsedQuery.tables; the error is QualifiedTableName(full name) when the
\* first rejected reference is the qualified one (whatever its schema and
\* name are: the qualification check precedes the system-table checks), and
\* SystemTableAccess when a bare system name comes before it.
C3_QualifiedRejected ==
  (Validated /\ SingleStatement /\ IsDml(TheStatement)) =>
    /\ vResult.ok =>
         /\ \A i \in DOMAIN TheStatement.relations : ~Qualified(TheStatement.relations[i])
         /\ vResult.tables = BareNames(TheStatement)
    /\ HasRejected(TheStatement) =>
         LET rel == TheStatement.relations[FirstRejected(TheStatement)] IN
         /\ ~vResult.ok
         /\ Qualified(rel) => vResult = Err("QualifiedTableName", JoinDot(rel))
         /\ ~Qualified(rel) => vResult.err = "SystemTableAccess"

C3_Witness ==
  /\ Validated /\ SingleStatement /\ IsDml(TheStatement)
  /\ vResult.err = "QualifiedTableName"
  /\ \E i \in DOMAIN TheStatement.relations :
       LET rel == TheStatement.relations[i] IN
       /\ Len(rel) = 2
       /\ SystemName(rel[1])
       /\ SystemName(rel[2])

\* C3 as written: whenever a reference has a schema part the result is
\* QualifiedTableName.
C3_Original ==
  (/\ Validated /\ SingleStatement /\ IsDml(TheStatement)
   /\ \E i \in DOMAIN TheStatement.relations : Qualified(TheStatement.relations[i]))
  => vResult.err = "QualifiedTableName"

\* C4 as amended: a supported single statement whose first rejected reference
\* is a bare name that, compared case-insensitively, starts with pg_ or equals
\* information_schema yields SystemTableAccess(name as written); a system name
\* behind a schema part yields QualifiedTableName instead.
C4_SystemTable ==
  (Validated /\ SingleStatement /\ IsDml(TheStatement) /\ HasRejected(TheStatement)) =>
    LET rel == TheStatement.relations[FirstRejected(TheStatement)] IN
    /\ (~Qualified(rel)) => vResult = Err("SystemTableAccess", rel[1])
    /\ (Qualified(rel) /\ SystemName(rel[Len(rel)])) => vResult.err = "QualifiedTableName"

C4_Witness ==
  /\ Validated /\ SingleStatement /\ IsDml(TheStatement)
  /\ vResult.err = "SystemTableAccess"
  /\ vResult.arg # to_lowercase(vResult.arg)
  /\ Len(TheStatement.relations) >= 2

\* C4 as written: whenever a referenced relation's name is a system name the
\* result is SystemTableAccess.
C4_Original ==
  (/\ Validated /\ SingleStatement /\ IsDml(TheStatement)
   /\ \E i \in DOMAIN TheStatement.relations :
        SystemName(TheStatement.relations[i][Len(TheStatement.relations[i])]))
  => vResult.err = "SystemTableAccess"

C6_Classification ==
  (/\ Validated /\ SingleStatement
   /\ ClassOf(TheStatement) # "-"
   /\ ~HasRejected(TheStatement)
   /\ TableRulesPass(TheStatement)
   /\ ClassOf(TheStatement) \in vRules.allowed_operations)
  => (vResult.ok /\ vResult.operation = ClassOf(TheStatement))

\* C7: for a single statement that classifies to op and passes the
\* table-reference checks, the result is OperationNotAllowed(op) exactly when
\* allowed_operations is non-empty and lacks op; with an empty set the check
\* is bypassed and the statement is accepted with operation op (unless a
\* table rule of the rule set rejects one of its tables).
C7_OperationCheck ==
  (Validated /\ SingleStatement /\ IsDml(TheStatement) /\ ~HasRejected(TheStatement)) =>
    LET op == ClassOf(TheStatement)
        denied == vRules.allowed_operations # {} /\ op \notin vRules.allowed_operations
    IN
    /\ (vResult = Err("OperationNotAllowed", op)) <=> denied
    /\ (vResult.err = "OperationNotAllowed") <=> denied
    /\ (~denied /\ TableRulesPass(TheStatement)) =>
         (vResult.ok /\ vResult.operation = op /\ vNext.pc = "execute")
    /\ (~denied /\ ~TableRulesPass(TheStatement)) =>
         vResult.err \in {"TableDenied", "TableNotAllowed"}

C7_Witness ==
  /\ Validated /\ SingleStatement
  /\ TheStatement.variant = "Delete"
  /\ vRules.allowed_operations = {}
  /\ vResult.ok
  /\ vResult.operation = "DELETE"
  /\ vNext.pc = "execute"

(* ------------------------- the pipeline ---------------------------- *)
\* the steps of query_handler, in the order of the code
Steps == <<"token", "database", "sql", "execute">>

Prefix(s, t) == Len(s) <= Len(t) /\ \A i \in DOMAIN s : s[i] = t[i]

Passed(step) == \E i \in DOMAIN req.trace : req.trace[i] = step

Unauthorized == [status |-> 401, code |-> "UNAUTHORIZED"]

NotFound404 == [status |-> 404, code |-> "DATABASE_NOT_FOUND"]

\* the hash of the token the request presented
PresentedHash == compute_token_hash(req.token)

\* the hashes a client can present
HashInputs == {compute_token_hash(UnknownToken)}
              \cup {generate_token(n).token_hash : n \in TokenIds}

\* C1: the steps a request has passed are a prefix of token, database, sql,
\* execute; the token step is passed only with a TokenInfo found for the
\* presented token, the database step only with the config of that token's
\* database_id, the sql step only with a ParsedQuery whose operation the
\* token allows; user SQL reaches a backend only in the execute step, and a
\* request that failed one of the three steps has sent nothing.
C1_PipelineOrder ==
  /\ Prefix(req.trace, Steps)
  /\ Passed("token") =>
       /\ req.token_info # NoTokenInfo
       /\ generate_token(req.token_info.token_id).token_hash = PresentedHash
  /\ Passed("database") =>
       /\ req.db_config # NoConfig
       /\ req.db_config.id = req.token_info.database_id
  /\ Passed("sql") =>
       /\ req.parsed.ok
       /\ req.token_info.allowed_operations # {} =>
            req.parsed.operation \in req.token_info.allowed_operations
  /\ req.pc = "execute" => req.trace = <<"token", "database", "sql">>
  /\ backend # {} => req.trace = Steps
  /\ (req.pc = "done" /\ ~Passed("execute")) =>
       /\ backend = {}
       /\ req.response.status \in {400, 401, 404}

C1_Witness ==
  /\ req.pc = "done"
  /\ req.trace = Steps
  /\ backend = {[sql |-> SqlDelete, target |-> req.db_config.backend]}
  /\ req.response.status = 200

\* C8: validate_token(h) is TokenNotFound exactly when no row has hash h, and
\* otherwise a TokenInfo with the token_id and database_id of the one row
\* with hash h; a request whose token lookup starts after delete_token
\* removed the row of its token is answered 401, passes no step and sends
\* nothing to a backend.
C8_Revocation ==
  /\ \A h \in HashInputs :
       LET rows == {t \in tokens : t.token_hash = h}
           found == validate_token(tokens, h)
       IN
       /\ rows = {} <=> (~found.ok /\ found.err = "TokenNotFound")
       /\ \A t \in rows : /\ rows = {t}
                          /\ found.ok
                          /\ found.info.token_id = t.id
                          /\ found.info.database_id = t.database_id
  /\ req.afterRevoke =>
       /\ req.pc = "done"
       /\ req.response = Unauthorized
       /\ req.trace = <<>>
       /\ backend = {}

C8_Witness ==
  /\ req.afterRevoke
  /\ req.cause = "TokenNotFound"
  /\ req.response = Unauthorized
  /\ tokens # {}

C11_Unauthorized ==
  req.cause \in {"MissingHeader", "InvalidTokenFormat", "TokenNotFound"} =>
    /\ req.pc = "done"
    /\ req.response = Unauthorized
    /\ req.trace = <<>>
    /\ req.token_info = NoTokenInfo
    /\ req.db_config = NoConfig
    /\ req.parsed = NoResult
    /\ backend = {}

C11_Witness ==
  /\ req.pc = "done"
  /\ req.cause = "TokenNotFound"
  /\ req.token = UnknownToken
  /\ req.response = Unauthorized
  /\ tokens # {}
  /\ backend = {}

DatabaseError500 == [status |-> 500, code |-> "DATABASE_ERROR"]

\* C12: a request that met a driver error, in the token lookup, in the
\* database-config lookup or in the execution, is answered 500
\* DATABASE_ERROR.
C12_DriverErrors ==
  (req.pc = "done" /\ req.cause = "Database") => req.response = DatabaseError500

(* ------------------------- the executor ---------------------------- *)
Returned(r) == xReq[r].pc = "done"

\* the result of the attempt itself, by the contract of execute_query
InnerResult(call) ==
  IF call.outcome.kind = "error" THEN [ok |-> FALSE, err |-> "Database", row_count |-> 0]
  ELSE IF call.outcome.rows > call.max_rows
  THEN [ok |-> FALSE, err |-> "RowLimitExceeded", row_count |-> 0]
  ELSE [ok |-> TRUE, err |-> "-", row_count |-> call.outcome.rows]

ResponseOf(call) == AfterExecute(call.result).response

\* C13: a call whose deadline expired while a step was pending, whichever
\* step, returns Timeout (504 TIMEOUT) and no rows, also when rows had been
\* fetched; a call whose attempt finished first returns the attempt's own
\* result.
C13_Deadline ==
  \A r \in Calls :
    Returned(r) =>
      /\ xReq[r].outcome.kind = "timeout" =>
           /\ xReq[r].result = [ok |-> FALSE, err |-> "Timeout", row_count |-> 0]
           /\ ResponseOf(xReq[r]) = [status |-> 504, code |-> "TIMEOUT"]
      /\ xReq[r].outcome.kind # "timeout" =>
           /\ xReq[r].result = InnerResult(xReq[r])
           /\ ResponseOf(xReq[r]).status # 504

C13_Witness ==
  \E r \in Calls :
    /\ Returned(r)
    /\ xReq[r].outcome = [kind |-> "timeout", at |-> "commit", rows |-> 0]
    /\ xReq[r].rows > 0
    /\ xReq[r].result.err = "Timeout"
    /\ xReq[r].result.row_count = 0

\* C14: in Schema and in Dedicated mode, an attempt that completes with a
\* fetch of more than max_rows rows returns RowLimitExceeded (400
\* ROW_LIMIT_EXCEEDED) and no rows; with at most max_rows rows, max_rows
\* itself included, it returns all of them and row_count is their number.
C14_RowCap ==
  \A r \in Calls :
    (Returned(r) /\ xReq[r].outcome.kind = "rows") =>
      LET n == xReq[r].outcome.rows IN
      /\ xReq[r].backend.type = "Schema" => n = xReq[r].rows
      /\ n > xReq[r].max_rows =>
           /\ xReq[r].result = [ok |-> FALSE, err |-> "RowLimitExceeded", row_count |-> 0]
           /\ ResponseOf(xReq[r]) = [status |-> 400, code |-> "ROW_LIMIT_EXCEEDED"]
      /\ n <= xReq[r].max_rows =>
           /\ xReq[r].result = [ok |-> TRUE, err |-> "-", row_count |-> n]
           /\ ResponseOf(xReq[r]).status = 200

C14_Witness ==
  \E r \in Calls :
    /\ Returned(r)
    /\ xReq[r].backend.type = "Schema"
    /\ xReq[r].outcome.kind = "rows"
    /\ xReq[r].outcome.rows = xReq[r].max_rows
    /\ xReq[r].max_rows > 0
    /\ xReq[r].result.ok
    /\ xReq[r].result.row_count = xReq[r].max_rows

\* C15: a connection in the shared pool has the default search path, so every
\* transaction starts with it, and every user statement of a Schema call runs
\* with the search path of the call's own schema.
C15_SearchPath ==
  /\ \A c \in ConnIds : conns[c].owner = 0 => conns[c].session = DefaultPath
  /\ \A r \in Calls :
       /\ xReq[r].began_with \in {NoPath, DefaultPath}
       /\ xReq[r].ran_with \in {NoPath, xReq[r].backend.name}

\* C16: the user SQL of a call is submitted at most once, whatever the
\* outcome; a call that returned rows or a driver error of the query
\* submitted it exactly once, and one that failed earlier never.
C16_NoRetry ==
  \A r \in Calls :
    /\ xReq[r].sent \in {0, 1}
    /\ Returned(r) =>
         /\ xReq[r].outcome.kind = "rows" => xReq[r].sent = 1
         /\ xReq[r].outcome.at \in {"commit"} => xReq[r].sent = 1
         /\ (xReq[r].outcome.kind = "error" /\ xReq[r].outcome.at = "query") =>
              xReq[r].sent = 1
         /\ xReq[r].outcome.at \in {"pool", "begin", "set_local"} => xReq[r].sent = 0

C16_Witness ==
  \E r \in Calls :
    /\ Returned(r)
    /\ xReq[r].outcome = [kind |-> "error", at |-> "query", rows |-> 0]
    /\ xReq[r].result.err = "Database"
    /\ xReq[r].sent = 1

(* ---------------------- the last_used_at update -------------------- *)
\* a step of the spawned update
TouchStep == touches' # touches /\ touches' \subseteq touches

\* C17: the update of last_used_at is scheduled only for a row that was
\* found, and the request that found it has its TokenInfo without waiting
\* for the update.
C17_Scheduled ==
  \A t \in touches :
    /\ req.token_info.token_id = t
    /\ Passed("token")
    /\ generate_token(t).token_hash = PresentedHash

\* C17: the update, whenever it runs and whether it succeeds or fails,
\* changes nothing of the request nor the result of any token lookup, and
\* nothing at all once the token row is deleted.
C17_FireAndForget ==
  [][TouchStep =>
       /\ req' = req
       /\ backend' = backend
       /\ \A h \in HashInputs : validate_token(tokens', h) = validate_token(tokens, h)
       /\ (\A t \in touches \ touches' : \A row \in tokens : row.id # t) => tokens' = tokens
    ]_vars /\ []C17_Scheduled

C17_Witness ==
  /\ req.pc = "done"
  /\ req.response.status = 200
  /\ touches = {req.token_info.token_id}
  /\ \A row \in tokens : row.id # req.token_info.token_id

(* --------------------------- token secrecy -------------------------- *)
\* the first 8 characters of a token
First8(token) == [prefix |-> token.prefix, head |-> token.head]

\* the tokens handed out so far
Secrets == {m[3] : m \in minted}

\* C18: create_token returns each full token once, to one caller; a token
\* row holds the SHA-256 hash of its token and the token's first 8
\* characters, and no column holds the token; list_tokens returns the id, the
\* prefix and last_used_at only, validate_token the ids and the operations.
C18_TokenSecrecy ==
  /\ \A m \in minted : m[3] = generate_token(m[1]).full_token /\ is_valid_format(m[3])
  /\ \A m1 \in minted, m2 \in minted : m1[3] = m2[3] => m1 = m2
  /\ \A row \in tokens :
       /\ DOMAIN row = {"id", "database_id", "token_hash", "token_prefix",
                        "allowed_operations", "last_used_at"}
       /\ \E m \in minted :
            /\ m[1] = row.id
            /\ row.token_hash = hash_token(m[3])
            /\ row.token_prefix = First8(m[3])
       /\ row.token_hash \notin Secrets
       /\ row.token_prefix \notin Secrets
  /\ \A d \in DbIds : \A item \in list_tokens(tokens, d) :
       /\ DOMAIN item = {"id", "token_prefix", "last_used_at"}
       /\ item.token_prefix \notin Secrets
       /\ \E m \in minted : m[1] = item.id /\ item.token_prefix = First8(m[3])
  /\ \A h \in HashInputs :
       DOMAIN validate_token(tokens, h).info = {"database_id", "token_id", "allowed_operations"}

C18_Witness ==
  /\ Cardinality(tokens) = 2
  /\ \E row \in tokens : row.last_used_at
  /\ \E d \in DbIds : Cardinality(list_tokens(tokens, d)) = 2
  /\ Cardinality({row.token_prefix : row \in tokens}) = 1

(* ------------------------- header extraction ------------------------ *)
\* the header carries a well-formed token once the whitespace is trimmed,
\* bare or after `Bearer `: the characters pg_ and 64 more
WellFormed(auth_header) ==
  /\ auth_header.present
  /\ auth_header.scheme \in {"Bearer", ""}
  /\ auth_header.token.prefix = <<"p","g","_">>
  /\ auth_header.token.hexlen = 64

RowOf(id) == {d \in databases : d.id = id}

\* C20, the states: DROP SCHEMA is reached only for a Schema database whose
\* row is gone; the DELETE is reached only with a row that was found;
\* NotFound carries nothing to delete.
C20_Order ==
  /\ del.pc = "drop_schema" =>
       /\ del.db.backend.type = "Schema"
       /\ RowOf(del.db.id) = {}
  /\ del.pc = "delete_row" => del.db # NoConfig
  /\ del.pc = "not_found" => del.db = NoConfig

\* C20, the steps: a schema goes only in the DROP SCHEMA step of a Schema
\* database, after its row went, and it is that database's schema; a row goes
\* only in the DELETE step; a lookup that finds no row is followed by the
\* return of NotFound, which deletes and drops nothing; a Dedicated database
\* loses its row and no schema.
C20_Steps ==
  /\ schemas' # schemas /\ schemas' \subseteq schemas =>
       /\ del.pc = "drop_schema"
       /\ RowOf(del.db.id) = {}
       /\ schemas \ schemas' = {del.db.backend.name}
  /\ databases' # databases /\ databases' \subseteq databases =>
       /\ del.pc = "delete_row"
       /\ databases \ databases' = RowOf(del.db.id)
  /\ del.pc = "idle" /\ del'.pc # "idle" =>
       \E id \in DbIds :
         /\ del'.pc = (IF RowOf(id) = {} THEN "not_found" ELSE "delete_row")
         /\ del'.pc = "delete_row" => del'.db.id = id
  /\ del.pc = "not_found" /\ del' # del =>
       del' = NoDelete /\ databases' = databases /\ schemas' = schemas /\ tokens' = tokens
  /\ del.pc = "delete_row" /\ del.db.backend.type = "Dedicated" /\ del' # del =>
       del'.pc = "idle" /\ schemas' = schemas

\* C20: delete_database drops the schema of a Schema database with CASCADE
\* only after the row has been removed; for an id with no row it returns
\* NotFound and issues neither the DELETE nor a DROP SCHEMA; for a Dedicated
\* database no schema is dropped.
C20_DeleteDatabase == [][C20_Steps]_vars /\ []C20_Order

\* a Schema database deleted and its schema dropped, then a second
\* delete_database of the same id answered NotFound
C20_Witness ==
  /\ del.pc = "not_found"
  /\ deleted # {}
  /\ \E id \in deleted : <<"db", id>> \notin schemas /\ RowOf(id) = {}

(* ---------------------- the schema-mode transaction ------------------ *)
\* the statements of execute_with_schema, in the order of the source
SchemaStatements == <<"BEGIN", "SET LOCAL", "QUERY", "COMMIT">>

\* C21: the statements of one schema-mode execution are issued in the order
\* BEGIN, SET LOCAL search_path, user query with fetch, COMMIT, each only
\* after the one before it succeeded and all on the connection BEGIN was
\* given; SET LOCAL names the tenant's schema, quotes doubled, and that schema
\* is the search path when the user query runs.
C21_TransactionOrder ==
  \A r \in Calls :
    LET call == xReq[r]
        log == call.log
    IN
    call.backend.type = "Schema" =>
      /\ Len(log) <= Len(SchemaStatements)
      /\ \A i \in 1..Len(log) :
           /\ log[i].stmt = SchemaStatements[i]
           /\ i > 1 => log[i - 1].ok /\ log[i].conn = log[1].conn /\ log[i].conn # 0
           /\ log[i].stmt = "SET LOCAL" =>
                /\ QuotedIdentifier(log[i].arg) = call.backend.name
                /\ Len(log[i].arg) =
                     Len(call.backend.name)
                     + Cardinality({k \in 1..Len(call.backend.name) :
                                      call.backend.name[k] = "\""})
           /\ log[i].stmt = "QUERY" => call.ran_with = call.backend.name
      /\ call.pc = "done" /\ call.result.ok =>
           Len(log) = 4 /\ \A i \in 1..4 : log[i].ok

C21_Witness ==
  \E r \in Calls :
    /\ xReq[r].pc = "done"
    /\ xReq[r].result.ok
    /\ xReq[r].database_id = 2
    /\ Len(xReq[r].log) = 4
    /\ xReq[r].log[2].arg = <<"db", "\"", "\"", "2">>

(* ----------------------- the dedicated-pools map --------------------- *)
\* an entry of dedicated_pools, once there, stays as it is
EntryKept ==
  \A k \in PoolKeys : dedicated_pools[k] # 0 => dedicated_pools'[k] = dedicated_pools[k]

\* the requests of one database id were all given the same pool
SamePool ==
  \A h1 \in handed, h2 \in handed : h1[1] = h2[1] => h1[2] = h2[2]

\* C22: a request that reaches the write lock when the entry is present
\* discards the pool it built and uses the stored one: an entry of
\* dedicated_pools is never replaced or removed, and all requests of a
\* database id use the same pool.
C22_PoolRace ==
  /\ [][EntryKept]_vars
  /\ [](\A b \in Builders :
          pCall[b].pc = "done" /\ pCall[b].pool # 0 =>
            pCall[b].pool = dedicated_pools[pCall[b].database_id])
  /\ []SamePool

\* C23: at most one pool is built for a database id, however the concurrent
\* Dedicated-mode requests interleave.
C23_BuildOnce ==
  \A k \in PoolKeys : Cardinality({c \in connects : c[1] = k}) <= 1

(* ------------------------- the format pre-filter --------------------- *)
\* C24: a request whose Authorization header is missing or whose token is
\* not pg_ followed by 64 characters sends no query to the store: no token
\* lookup, no last_used_at update, no database lookup.
C24_NoStoreAccess ==
  hOut.done /\ ~WellFormed(hHeader) =>
    /\ hOut.store_calls = <<>>
    /\ vNext.pc = "-"
    /\ ~hOut.ok
    /\ hOut.err \in {"MissingHeader", "InvalidTokenFormat"}

C24_Witness ==
  /\ hOut.done
  /\ hHeader.present /\ hHeader.scheme = "Bearer" /\ hHeader.trail > 0
  /\ hHeader.token = ShortToken
  /\ hTokens # {}
  /\ hOut.err = "InvalidTokenFormat"

(* --------------------- parsing allowed_operations -------------------- *)
\* the row of the token the header presents
PresentedRows ==
  {row \in hTokens : WellFormed(hHeader) /\ row.token_hash = hash_token(hHeader.token)}

\* C25: validate_token returns as allowed operations exactly the stored
\* strings that are one of SELECT, INSERT, UPDATE, DELETE, CREATE, ALTER, DROP
\* as written, upper case; any other stored string is left out and never
\* makes the lookup fail.
C25_UnknownDropped ==
  hOut.done =>
    \A row \in PresentedRows :
      /\ hOut.ok
      /\ hOut.info.token_id = row.id
      /\ hOut.info.allowed_operations =
           row.allowed_operations
             \cap {"SELECT", "INSERT", "UPDATE", "DELETE", "CREATE", "ALTER", "DROP"}

C25_Witness ==
  /\ hOut.done /\ hOut.ok
  /\ \E row \in PresentedRows :
       /\ row.allowed_operations = {"SELECT", "select", "DELETE", "DROP"}
       /\ hOut.info.allowed_operations = {"SELECT", "DELETE", "DROP"}

(* -------------------- operation-level authorisation ------------------ *)
\* C27: a statement is passed to the executor only if its operation is one
\* of the names stored in allowed_operations of the token's row, also when
\* the stored list is empty or holds only strings that name no operation.
C27_OperationAuthorised ==
  vNext.pc = "execute" =>
    \A row \in PresentedRows : vResult.operation \in row.allowed_operations

(* ----------------------- the order of the checks --------------------- *)
\* the operation of the statement is not among the allowed ones
Denied(statement) ==
  /\ vRules.allowed_operations # {}
  /\ ClassOf(statement) \notin vRules.allowed_operations

\* C26: the error of validate is the first that applies of: parse error;
\* EmptyQuery or MultipleStatements; UnsupportedStatement; the error of a
\* table reference (QualifiedTableName, SystemTableAccess);
\* OperationNotAllowed; the table rules.  A statement of a non-permitted
\* operation that names a qualified or system table gets the table error.
C26_ErrorOrder ==
  Validated =>
    CASE ~AllStatements(vSql) -> vResult.err = "SqlParser"
      [] Len(SegmentsOf(vSql)) = 0 -> vResult.err = "EmptyQuery"
      [] Len(SegmentsOf(vSql)) > 1 -> vResult.err = "MultipleStatements"
      [] ~IsDml(TheStatement) -> vResult.err = "UnsupportedStatement"
      [] HasRejected(TheStatement) ->
           vResult.err \in {"QualifiedTableName", "SystemTableAccess"}
      [] Denied(TheStatement) -> vResult.err = "OperationNotAllowed"
      [] OTHER -> vResult.err \in {"-", "TableDenied", "TableNotAllowed"}

\* DELETE FROM <schema>.<table> with a token allowed SELECT only
C26_Witness ==
  /\ Validated /\ SingleStatement
  /\ TheStatement.variant = "Delete"
  /\ vRules.allowed_operations = {"SELECT"}
  /\ \E i \in DOMAIN TheStatement.relations : Qualified(TheStatement.relations[i])
  /\ vResult.err = "QualifiedTableName"

\* C28: a schema-mode call that ends in RowLimitExceeded has left the
\* tenant's data as it was: what its statement changed was not committed.
C28_NothingWritten ==
  \A r \in Calls :
    /\ xReq[r].pc = "done"
    /\ xReq[r].backend.type = "Schema"
    /\ xReq[r].result.err = "RowLimitExceeded"
    => ~xReq[r].persisted

\* C29: in schema mode COMMIT is issued only after SET LOCAL search_path and
\* the user query with its fetch both succeeded; a call that a driver error
\* or the deadline ended before COMMIT was issued has persisted nothing of
\* its statement, and no connection is left with its transaction.
C29_CommitOnlyAfterSuccess ==
  \A r \in Calls :
    LET call == xReq[r]
        log == call.log
        committed == \E i \in 1..Len(log) : log[i].stmt = "COMMIT"
    IN
    call.backend.type = "Schema" =>
      /\ committed =>
           /\ \E i \in 1..Len(log) : log[i].stmt = "SET LOCAL" /\ log[i].ok
           /\ \E i \in 1..Len(log) : log[i].stmt = "QUERY" /\ log[i].ok
      /\ ~committed => ~call.persisted
      /\ call.pc = "done" /\ ~committed =>
           /\ call.outcome.kind \in {"error", "timeout"}
           /\ \A c \in ConnIds : conns[c].owner # r

\* the deadline expired while the fetch of a DELETE ... RETURNING was
\* pending: the statement ran, COMMIT was never issued, nothing is persisted
C29_Witness ==
  \E r \in Calls :
    /\ xReq[r].pc = "done"
    /\ xReq[r].backend.type = "Schema"
    /\ xReq[r].outcome.kind = "timeout"
    /\ xReq[r].outcome.at = "query"
    /\ xReq[r].wrote
    /\ ~xReq[r].persisted

\* C30: the cap execute enforces is the stored max_rows: the unsigned cap
\* passed to execute has the value of the stored signed max_rows, and a fetch
\* of more rows than the stored max_rows is answered RowLimitExceeded.
C30_CapIsStored ==
  cIn.pc = "done" =>
    /\ cOut.cap.hi = cIn.max_rows \div 65536
    /\ cOut.cap.lo = cIn.max_rows % 65536
    /\ cIn.rows > cIn.max_rows => cOut.result.err = "RowLimitExceeded"

====
